---- MODULE Spec2Model ----
EXTENDS Integers, Sequences, FiniteSets, TLC

\* Shop-by-specs: derivation of smart collections from product attributes,
\* duplicate detection, related-collections resolution and duplicate cleanup.
\* Strings the program inspects character by character are sequences of
\* one-character strings; a JavaScript object is the sequence of its
\* <<key, value>> entries in insertion order.

VARIABLES
    variant,               \* the collection-generator in use: "root" or "web"
    api,                   \* the shopify-api module it is linked with
    storeProduct,          \* the product as the store holds it
    storeDefs,             \* the store's metafield definitions (edges)
    storeOthers,           \* further smart collections the store lists first
    run,                   \* processProduct: the invocation, 1 or 2
    firstRun,              \* create requests the first invocation sent
    store,                 \* the store's smart collections
    pc,                    \* position of the running operation
    product,               \* processProduct: the fetched product
    metafieldDefinitions,  \* the definition map in use
    existingCollections,   \* the list of collections fetched for the duplicate check
    combinations,          \* result of generateAttributeCombinations
    idx,                   \* loop index (1-based)
    requests,              \* create and delete requests sent to the store, in order
    failed,                \* number of store calls that failed
    inputCombination,                 \* the combination handed to createCollectionDetails
    collectionDetails,               \* result of createCollectionDetails
    parsed,                \* result of parseCollectionAttributes
    candRules,             \* doesSimilarCollectionExist: the candidate rules
    detResult,             \* doesSimilarCollectionExist: "none", TRUE or FALSE
    targetHandle,          \* getRelatedCollections: collectionHandle
    collection,            \* getRelatedCollections: the current collection
    collectionAttributes,  \* getRelatedCollections: its parsed attributes
    related,               \* getRelatedCollections: the result being filled
    allCollections,        \* the collections fetched from the store
    collectionsByRules,    \* cleanupDuplicateCollections: ruleKey -> collections
    collectionsToDelete,   \* cleanupDuplicateCollections: ids planned for deletion
    thrown,                \* the error the function ended with, "" if none
    entry,                 \* the index file the server runs
    req,                   \* webhook: the request being handled
    res,                   \* status answered to the request, 0 while none
    parsedBodies,          \* webhook: the requests whose body was parsed
    productQueue,          \* web/index.js: the tasks waiting in productQueue
    processCalls,          \* the calls of processProduct the server started
    received,              \* webhook: number of requests received
    running,               \* the executions of processProduct in progress
    jobReports,            \* productQueue: the tasks it reported finished or failed
    clock,                 \* Date.now(), in ms
    lastRequestTime,       \* web/shopify-api.js: time of the last GraphQL request
    calls,                 \* the store calls in progress, by caller
    sendLog,               \* the requests sent to the store: time and sender
    productPages,          \* the pages in which the store lists its products
    sweep                  \* processAllExistingProducts: its locals and its log

vars == <<variant, api, storeProduct, storeDefs, storeOthers, run, firstRun,
          store, pc, product,
          metafieldDefinitions, existingCollections, combinations, idx,
          requests, failed, inputCombination, collectionDetails, parsed, candRules,
          detResult, targetHandle, collection, collectionAttributes, related,
          allCollections, collectionsByRules, collectionsToDelete, thrown,
          entry, req, res, parsedBodies, productQueue, processCalls, received,
          running, jobReports, clock, lastRequestTime, calls, sendLog,
          productPages, sweep>>

unitVars == <<inputCombination, collectionDetails, parsed>>
detVars == <<candRules, detResult>>
relVars == <<targetHandle, collection, collectionAttributes, related>>
cleanVars == <<collectionsByRules, collectionsToDelete>>
hookVars == <<entry, req, res, parsedBodies, productQueue, processCalls, received>>
toolVars == <<relVars, cleanVars, allCollections, thrown, hookVars>>
serverVars == <<running, jobReports>>
limiterVars == <<clock, lastRequestTime, calls, sendLog>>
sweepVars == <<productPages, sweep>>

\* ---------------------------------------------------------------- bounds
MaxExisting == 1
MaxFailures == 1
MaxRules == 2
MaxCatalog == 3
MaxCleanup == 3
MaxRequests == 2
MaxCalls == 2
MaxClock == 4
MaxPages == 2
MaxPageLen == 2

\* ---------------------------------------------------------------- values
Empty == <<>>
Undefined == <<"undefined">>
Genie == <<"G", "e", "n", "i", "e">>
BoomLift == <<"B", "o", "o", "m", " ", "L", "i", "f", "t">>
Used == <<"U", "s", "e", "d">>
Electric == <<"E", "l", "e", "c", "t", "r", "i", "c">>
Parts == <<"P", "a", "r", "t", "s">>
Size30 == <<"3", "0", "f", "t">>
PaddedJlg == <<" ", "J", "L", "G", " ", "&", " ", "C", "o", ".", "-">>

Truthy(v) == v # Empty /\ v # Undefined

\* ------------------------------------------------------- object helpers
ObjHas(obj, k) == \E i \in 1..Len(obj) : obj[i][1] = k

ObjGet(obj, k) ==
    IF ObjHas(obj, k)
    THEN obj[CHOOSE i \in 1..Len(obj) : obj[i][1] = k][2]
    ELSE Undefined

ObjSet(obj, k, v) ==
    IF ObjHas(obj, k)
    THEN [i \in 1..Len(obj) |-> IF obj[i][1] = k THEN <<k, v>> ELSE obj[i]]
    ELSE Append(obj, <<k, v>>)

ObjKeys(obj) == {obj[i][1] : i \in 1..Len(obj)}

\* ------------------------------------------------------ program constants
\* The size attribute is named size_item in web/ and size in the root files.
SizeAttr(v) == IF v = "web" THEN "size_item" ELSE "size"

PRODUCT_ATTRIBUTES(v) ==
    <<"condition", "vendor", "product_type", SizeAttr(v), "fuel_type">>

REQUIRED_ATTRIBUTES == <<"product_type">>

SeqContains(s, x) == \E i \in 1..Len(s) : s[i] = x

OPTIONAL_ATTRIBUTES(v) ==
    SelectSeq(PRODUCT_ATTRIBUTES(v), LAMBDA a : ~SeqContains(REQUIRED_ATTRIBUTES, a))

attributeOrder(v) ==
    <<"condition", SizeAttr(v), "vendor", "fuel_type", "product_type">>

KeyLower(k) ==
    CASE k = "Condition" -> "condition"
      [] k = "Size" -> "size"
      [] OTHER -> k

\* ------------------------------------------------ extractProductAttributes
RECURSIVE ApplyMetafields(_, _, _)
ApplyMetafields(v, attributes, metafields) ==
    IF metafields = <<>> THEN attributes
    ELSE LET key == Head(metafields).key
             value == Head(metafields).value
             next ==
                 IF key = "Condition" \/ KeyLower(key) = "condition"
                 THEN ObjSet(attributes, "condition", value)
                 ELSE IF key = "size_item" \/ KeyLower(key) = "size"
                 THEN ObjSet(attributes, SizeAttr(v), value)
                 ELSE IF key = "fuel_type"
                 THEN ObjSet(attributes, "fuel_type", value)
                 ELSE attributes
         IN ApplyMetafields(v, next, Tail(metafields))

Or3(a, b, c) == IF Truthy(a) THEN a ELSE IF Truthy(b) THEN b ELSE c

extractProductAttributes(v, p) ==
    LET initial == << <<"condition", Empty>>,
                      <<"vendor", Or3(p.vendor, Empty, Empty)>>,
                      <<"product_type", Or3(p.productType, p.product_type, Empty)>>,
                      <<"size", Empty>>,
                      <<"fuel_type", Empty>> >>
    IN IF p.hasMetafields
       THEN ApplyMetafields(v, initial, p.metafields)
       ELSE initial

\* ------------------------------------------- generateAttributeCombinations
RECURSIVE Pow2(_)
Pow2(n) == IF n = 0 THEN 1 ELSE 2 * Pow2(n - 1)

BitSet(i, j) == ((i \div Pow2(j)) % 2) = 1

RECURSIVE AddOptional(_, _, _, _, _)
AddOptional(combo, attributes, optional, i, j) ==
    IF j >= Len(optional) THEN combo
    ELSE LET attrName == optional[j + 1]
             next == IF BitSet(i, j) /\ Truthy(ObjGet(attributes, attrName))
                     THEN ObjSet(combo, attrName, ObjGet(attributes, attrName))
                     ELSE combo
         IN AddOptional(next, attributes, optional, i, j + 1)

ComboForMask(v, attributes, i) ==
    AddOptional(<< <<"product_type", ObjGet(attributes, "product_type")>> >>,
                attributes, OPTIONAL_ATTRIBUTES(v), i, 0)

\* The loop body pushing every combination it built.
KeepComboAlways(combo, i) == TRUE

KeepCombo(combo, i) == Len(combo) > Len(REQUIRED_ATTRIBUTES) \/ i = 0

RECURSIVE CombosFrom(_, _, _)
CombosFrom(v, attributes, i) ==
    IF i >= Pow2(Len(OPTIONAL_ATTRIBUTES(v))) THEN <<>>
    ELSE LET combo == ComboForMask(v, attributes, i)
         IN (IF KeepCombo(combo, i) THEN <<combo>> ELSE <<>>)
            \o CombosFrom(v, attributes, i + 1)

\* generateAttributeCombinations without its product-type guard.
generateWithoutTypeGuard(v, p) ==
    CombosFrom(v, extractProductAttributes(v, p), 0)

generateAttributeCombinations(v, p) ==
    LET attributes == extractProductAttributes(v, p)
    IN IF ~Truthy(ObjGet(attributes, "product_type"))
       THEN <<>>
       ELSE CombosFrom(v, attributes, 0)

\* ------------------------------------------------- createCollectionDetails
IndexOf(s, x) ==
    IF SeqContains(s, x)
    THEN (CHOOSE i \in 1..Len(s) : s[i] = x /\ \A j \in 1..(i - 1) : s[j] # x) - 1
    ELSE -1

\* The comparator handed to attrEntries.sort.
CompareEntries(v, a, b) ==
    LET indexA == IndexOf(attributeOrder(v), a[1])
        indexB == IndexOf(attributeOrder(v), b[1])
    IN IF indexA # -1 /\ indexB # -1 THEN indexA - indexB
       ELSE IF indexA # -1 THEN -1
       ELSE IF indexB # -1 THEN 1
       ELSE 0

\* Array.prototype.sort is stable: an entry goes after every entry that does
\* not compare greater than it.
RECURSIVE InsertEntry(_, _, _)
InsertEntry(v, sorted, x) ==
    IF sorted = <<>> THEN <<x>>
    ELSE IF CompareEntries(v, Head(sorted), x) <= 0
    THEN <<Head(sorted)>> \o InsertEntry(v, Tail(sorted), x)
    ELSE <<x>> \o sorted

\* attrEntries left in insertion order.
SortEntriesOmitted(v, entries) == entries

RECURSIVE SortEntries(_, _)
SortEntries(v, entries) ==
    IF entries = <<>> THEN <<>>
    ELSE InsertEntry(v, SortEntries(v, SubSeq(entries, 1, Len(entries) - 1)),
                     entries[Len(entries)])

RECURSIVE Join(_, _)
Join(parts, sep) ==
    IF parts = <<>> THEN <<>>
    ELSE IF Len(parts) = 1 THEN parts[1]
    ELSE parts[1] \o sep \o Join(Tail(parts), sep)

UpperSeq == <<"A", "B", "C", "D", "E", "F", "G", "H", "I", "J", "K", "L", "M",
              "N", "O", "P", "Q", "R", "S", "T", "U", "V", "W", "X", "Y", "Z">>
LowerSeq == <<"a", "b", "c", "d", "e", "f", "g", "h", "i", "j", "k", "l", "m",
              "n", "o", "p", "q", "r", "s", "t", "u", "v", "w", "x", "y", "z">>
DigitSeq == <<"0", "1", "2", "3", "4", "5", "6", "7", "8", "9">>

IsWhitespace(c) == c \in {" ", "\t", "\n"}
IsWordChar(c) ==
    SeqContains(UpperSeq, c) \/ SeqContains(LowerSeq, c)
    \/ SeqContains(DigitSeq, c) \/ c = "_"

LowerChar(c) ==
    IF SeqContains(UpperSeq, c) THEN LowerSeq[IndexOf(UpperSeq, c) + 1] ELSE c

toLowerCase(s) == [i \in 1..Len(s) |-> LowerChar(s[i])]

\* replace(/[^\w\s-]/g, '')
StripSpecial(s) ==
    SelectSeq(s, LAMBDA c : IsWordChar(c) \/ IsWhitespace(c) \/ c = "-")

\* replace(/\s+/g, '-')
RECURSIVE SpacesToHyphen(_)
SpacesToHyphen(s) ==
    IF s = <<>> THEN <<>>
    ELSE IF IsWhitespace(Head(s))
    THEN IF Len(s) > 1 /\ IsWhitespace(s[2])
         THEN SpacesToHyphen(Tail(s))
         ELSE <<"-">> \o SpacesToHyphen(Tail(s))
    ELSE <<Head(s)>> \o SpacesToHyphen(Tail(s))

\* replace(/-+/g, '-')
RECURSIVE CollapseHyphens(_)
CollapseHyphens(s) ==
    IF s = <<>> THEN <<>>
    ELSE IF Head(s) = "-" /\ Len(s) > 1 /\ s[2] = "-"
    THEN CollapseHyphens(Tail(s))
    ELSE <<Head(s)>> \o CollapseHyphens(Tail(s))

RECURSIVE TrimStart(_)
TrimStart(s) ==
    IF s # <<>> /\ IsWhitespace(Head(s)) THEN TrimStart(Tail(s)) ELSE s

RECURSIVE TrimEnd(_)
TrimEnd(s) ==
    IF s # <<>> /\ IsWhitespace(s[Len(s)])
    THEN TrimEnd(SubSeq(s, 1, Len(s) - 1)) ELSE s

trim(s) == TrimEnd(TrimStart(s))

handleValue(value) ==
    trim(CollapseHyphens(SpacesToHyphen(StripSpecial(toLowerCase(value)))))

\* handleParts[attr] for the sorted entries; the handle joins the fragments of
\* attributeOrder that exist and are non-empty.
HandleOf(v, attrEntries) ==
    LET handleParts == [i \in 1..Len(attrEntries) |->
                           <<attrEntries[i][1], handleValue(attrEntries[i][2])>>]
        present == SelectSeq(attributeOrder(v),
                             LAMBDA attr : Truthy(ObjGet(handleParts, attr)))
    IN Join([i \in 1..Len(present) |-> ObjGet(handleParts, present[i])], <<"-">>)

NoId == <<>>
NullRule == [column |-> "null", relation |-> "", condition |-> Empty,
             condition_object_id |-> NoId]

\* The vendor case returning the product-type column.
RuleForVendorAsType(v, attr, value, defs) ==
    CASE attr \in {"vendor", "product_type"} ->
           [column |-> "type", relation |-> "equals", condition |-> value,
            condition_object_id |-> NoId]
      [] attr \in {"condition", "fuel_type", SizeAttr(v)} ->
           IF Truthy(ObjGet(defs, attr))
           THEN [column |-> "product_metafield_definition", relation |-> "equals",
                 condition |-> value, condition_object_id |-> ObjGet(defs, attr)]
           ELSE NullRule
      [] OTHER -> NullRule

RuleFor(v, attr, value, defs) ==
    CASE attr = "vendor" ->
           [column |-> "vendor", relation |-> "equals", condition |-> value,
            condition_object_id |-> NoId]
      [] attr = "product_type" ->
           [column |-> "type", relation |-> "equals", condition |-> value,
            condition_object_id |-> NoId]
      [] attr \in {"condition", "fuel_type", SizeAttr(v)} ->
           IF Truthy(ObjGet(defs, attr))
           THEN [column |-> "product_metafield_definition", relation |-> "equals",
                 condition |-> value, condition_object_id |-> ObjGet(defs, attr)]
           ELSE NullRule
      [] OTHER -> NullRule

RulesOf(v, attrEntries, defs) ==
    SelectSeq([i \in 1..Len(attrEntries) |->
                  RuleFor(v, attrEntries[i][1], attrEntries[i][2], defs)],
              LAMBDA rule : rule # NullRule)

NullDetails == [isNull |-> TRUE, title |-> Empty, handle |-> Undefined, rules |-> <<>>]

createCollectionDetails(v, combination, defs) ==
    LET filtered == SelectSeq(combination, LAMBDA e : Truthy(e[2]))
        attrEntries == SortEntries(v, filtered)
    IN IF Len(filtered) = 0 THEN NullDetails
       ELSE [isNull |-> FALSE,
             title |-> Join([i \in 1..Len(attrEntries) |-> attrEntries[i][2]], <<" ">>),
             handle |-> IF v = "web" THEN HandleOf(v, attrEntries) ELSE Undefined,
             rules |-> RulesOf(v, attrEntries, defs)]

\* ---------------------------------------------- doesSimilarCollectionExist
RuleMatches(existingRule, newRule) ==
    /\ existingRule.column = newRule.column
    /\ existingRule.relation = newRule.relation
    /\ existingRule.condition = newRule.condition
    /\ (newRule.column # "product_metafield_definition"
        \/ existingRule.condition_object_id = newRule.condition_object_id)

\* The loop body without the rule-count test.
CollectionMatchesAnyLength(rules, aCollection) ==
    /\ aCollection.hasRules
    /\ \A n \in 1..Len(rules) :
          \E e \in 1..Len(aCollection.rules) :
             RuleMatches(aCollection.rules[e], rules[n])

CollectionMatches(rules, aCollection) ==
    /\ aCollection.hasRules
    /\ Len(aCollection.rules) = Len(rules)
    /\ \A n \in 1..Len(rules) :
          \E e \in 1..Len(aCollection.rules) :
             RuleMatches(aCollection.rules[e], rules[n])

doesSimilarCollectionExist(rules, existing) ==
    \E c \in 1..Len(existing) : CollectionMatches(rules, existing[c])

\* ------------------------------------------ getProductMetafieldDefinitions
\* An id is the sequence of its "/"-separated segments: <<"101">> is "101".
Gid(kind, n) == <<"gid:", "", "shopify", kind, n>>
SplitPop(id) == <<id[Len(id)]>>
IncludesSlash(id) == Len(id) > 1

RECURSIVE BuildDefinitionsMap(_, _, _)
BuildDefinitionsMap(v, definitionsMap, edges) ==
    IF edges = <<>> THEN definitionsMap
    ELSE LET key == Head(edges).key
             numericId == SplitPop(Head(edges).id)
             next ==
                 IF key = "Condition" \/ KeyLower(key) = "condition"
                 THEN ObjSet(definitionsMap, "condition", numericId)
                 ELSE IF key = "size_item"
                 THEN ObjSet(definitionsMap, SizeAttr(v), numericId)
                 ELSE IF key = "fuel_type"
                 THEN ObjSet(definitionsMap, "fuel_type", numericId)
                 ELSE ObjSet(definitionsMap, key, numericId)
         IN BuildDefinitionsMap(v, next, Tail(edges))

getProductMetafieldDefinitions(v, ok, edges) ==
    IF ok THEN BuildDefinitionsMap(v, <<>>, edges) ELSE <<>>


\* ------------------------------------------------ parseCollectionAttributes
ColumnLower(c) ==
    CASE c = "TYPE" -> "type"
      [] c = "VENDOR" -> "vendor"
      [] c = "TITLE" -> "title"
      [] c = "PRODUCT_METAFIELD_DEFINITION" -> "product_metafield_definition"
      [] OTHER -> c

\* definitionIdToAttribute: definition id -> attribute name, later entries win.
RECURSIVE ReverseDefinitions(_, _)
ReverseDefinitions(rev, entries) ==
    IF entries = <<>> THEN rev
    ELSE ReverseDefinitions(ObjSet(rev, Head(entries)[2], Head(entries)[1]),
                            Tail(entries))

HasSub(s, w, i) == i + Len(w) - 1 <= Len(s) /\ SubSeq(s, i, i + Len(w) - 1) = w

\* \bw\b at position i
WordAt(s, w, i) ==
    /\ HasSub(s, w, i)
    /\ (i = 1 \/ ~IsWordChar(s[i - 1]))
    /\ (i + Len(w) - 1 = Len(s) \/ ~IsWordChar(s[i + Len(w)]))

MatchesWord(s, words) == \E w \in words : \E i \in 1..Len(s) : WordAt(s, w, i)

IsDigit(c) == SeqContains(DigitSeq, c)

ConditionWords ==
    {<<"u", "s", "e", "d">>, <<"n", "e", "w">>,
     <<"r", "e", "f", "u", "r", "b", "i", "s", "h", "e", "d">>}

FuelWords ==
    {<<"e", "l", "e", "c", "t", "r", "i", "c">>, <<"d", "i", "e", "s", "e", "l">>,
     <<"g", "a", "s">>, <<"h", "y", "b", "r", "i", "d">>,
     <<"p", "r", "o", "p", "a", "n", "e">>}

\* /(\d+['"]|\d+ft|\d+-\d+|feet|\d+')/
MatchesSize(s) ==
    \E i \in 1..Len(s) :
       \/ HasSub(s, <<"f", "e", "e", "t">>, i)
       \/ /\ IsDigit(s[i])
          /\ \/ (i < Len(s) /\ s[i + 1] \in {"'", "\""})
             \/ HasSub(s, <<"f", "t">>, i + 1)
             \/ (i + 2 <= Len(s) /\ s[i + 1] = "-" /\ IsDigit(s[i + 2]))

RECURSIVE ParseRestRules(_, _, _)
ParseRestRules(attributes, rules, rev) ==
    IF rules = <<>> THEN attributes
    ELSE LET rule == Head(rules)
             definitionId == IF IncludesSlash(rule.condition_object_id)
                             THEN SplitPop(rule.condition_object_id)
                             ELSE rule.condition_object_id
             next ==
                 IF rule.column = "type"
                 THEN ObjSet(attributes, "product_type", rule.condition)
                 ELSE IF rule.column = "vendor"
                 THEN ObjSet(attributes, "vendor", rule.condition)
                 ELSE IF rule.column = "product_metafield_definition"
                         /\ Truthy(rule.condition_object_id)
                         /\ ObjHas(rev, definitionId)
                 THEN ObjSet(attributes, ObjGet(rev, definitionId), rule.condition)
                 ELSE attributes
         IN ParseRestRules(next, Tail(rules), rev)

KeyAttribute(key) ==
    IF KeyLower(key) = "condition" THEN "condition"
    ELSE IF KeyLower(key) \in {"size_item", "size"} THEN "size_item"
    ELSE IF KeyLower(key) = "fuel_type" THEN "fuel_type"
    ELSE ""

PatternAttribute(condition) ==
    IF MatchesWord(toLowerCase(condition), ConditionWords) THEN "condition"
    ELSE IF MatchesSize(toLowerCase(condition)) THEN "size_item"
    ELSE IF MatchesWord(toLowerCase(condition), FuelWords) THEN "fuel_type"
    ELSE ""

RECURSIVE ParseGraphQLRules(_, _, _)
ParseGraphQLRules(attributes, rules, rev) ==
    IF rules = <<>> THEN attributes
    ELSE LET rule == Head(rules)
             column == ColumnLower(rule.column)
             definitionId == SplitPop(rule.conditionObject.metafieldDefinition.id)
             attributeKey ==
                 IF ~rule.conditionObject.hasDefinition THEN ""
                 ELSE IF ObjHas(rev, definitionId) THEN ObjGet(rev, definitionId)
                 ELSE KeyAttribute(rule.conditionObject.metafieldDefinition.key)
             next ==
                 IF column = "type"
                 THEN ObjSet(attributes, "product_type", rule.condition)
                 ELSE IF column = "vendor"
                 THEN ObjSet(attributes, "vendor", rule.condition)
                 ELSE IF column = "product_metafield_definition"
                 THEN IF attributeKey # ""
                      THEN ObjSet(attributes, attributeKey, rule.condition)
                      ELSE IF PatternAttribute(rule.condition) # ""
                      THEN ObjSet(attributes, PatternAttribute(rule.condition),
                                  rule.condition)
                      ELSE attributes
                 ELSE attributes
         IN ParseGraphQLRules(next, Tail(rules), rev)

parseCollectionAttributes(aCollection, providedMetafieldDefinitions) ==
    LET attributes == << <<"product_type", Empty>>, <<"vendor", Empty>>,
                         <<"condition", Empty>>, <<"size_item", Empty>>,
                         <<"fuel_type", Empty>> >>
        rev == ReverseDefinitions(<<>>, providedMetafieldDefinitions)
    IN IF aCollection.hasRules
       THEN ParseRestRules(attributes, aCollection.rules, rev)
       ELSE IF aCollection.hasRuleSet
       THEN ParseGraphQLRules(attributes, aCollection.ruleSet.rules, rev)
       ELSE attributes


\* ------------------------------------------------------- the store's data
Variants == {"root", "web"}

\* Names exported by the shopify-api modules of the repository: "rest" is the
\* module with the REST calls, "graphql" is web/shopify-api.js.
Exports(a) ==
    IF a = "rest"
    THEN {"createSmartCollection", "getExistingSmartCollections",
          "getProductByIdGraphQL", "getProducts", "registerProductCreationWebhook",
          "runGraphQLQuery", "getProductsGraphQL"}
    ELSE {"createSmartCollectionGraphQL", "getExistingSmartCollectionsGraphQL",
          "getProductByIdGraphQL", "getProducts", "registerProductCreationWebhook",
          "runGraphQLQuery", "getProductsGraphQL", "deleteSmartCollection",
          "getCollectionByHandle"}

\* require("./shopify-api"): web/collection-generator.js resolves to
\* web/shopify-api.js; the REST module is the one the root files are written for.
ApisFor(v) == IF v = "root" THEN {"rest"} ELSE {"rest", "graphql"}

MF(k, val) == [node |-> [key |-> k, value |-> val]]

ConditionEdges == {<<>>, <<MF("Condition", Used)>>}
SizeEdges == {<<>>, <<MF("size_item", Size30)>>, <<MF("Size", Size30)>>}
FuelEdges == {<<>>, <<MF("fuel_type", Electric)>>}

StoreProducts ==
    {[productType |-> t, vendor |-> vd, metafields |-> [edges |-> c \o z \o f]] :
        t \in {Empty, BoomLift}, vd \in {Empty, Genie, PaddedJlg},
        c \in ConditionEdges, z \in SizeEdges, f \in FuelEdges}

StoreProduct(t, vd, edges) ==
    [productType |-> t, vendor |-> vd, metafields |-> [edges |-> edges]]

\* The products processProduct is run on.
ProcessedProducts ==
    {StoreProduct(Empty, Empty, <<>>),
     StoreProduct(Empty, Genie, <<MF("Condition", Used)>>),
     StoreProduct(BoomLift, Empty, <<>>),
     StoreProduct(BoomLift, Genie, <<>>),
     StoreProduct(BoomLift, Empty, <<MF("Condition", Used)>>),
     StoreProduct(BoomLift, Genie, <<MF("Size", Size30)>>),
     StoreProduct(BoomLift, Genie,
                  <<MF("Condition", Used), MF("size_item", Size30),
                    MF("fuel_type", Electric)>>)}

DefEdge(n, k) == [node |-> [id |-> Gid("MetafieldDefinition", n), key |-> k]]
ConditionDef == DefEdge("101", "Condition")
SizeDef == DefEdge("102", "size_item")
FuelDef == DefEdge("103", "fuel_type")
ColorDef == DefEdge("104", "color")

StoreDefinitionLists ==
    {<<>>, <<ColorDef, ConditionDef>>, <<ConditionDef, SizeDef, FuelDef>>}

Rule(col, rel, cond, oid) ==
    [column |-> col, relation |-> rel, condition |-> cond, condition_object_id |-> oid]

TypeRule(val) == Rule("type", "equals", val, NoId)
VendorRule(val) == Rule("vendor", "equals", val, NoId)
MetaRule(val, n) == Rule("product_metafield_definition", "equals", val, <<n>>)

\* A smart collection as the REST interface returns it (rules), without the
\* fields of the GraphQL shape (ruleSet).
RestCollection(i, t, h, rs, created) ==
    [id |-> i, title |-> t, handle |-> h, hasRules |-> TRUE, rules |-> rs,
     hasRuleSet |-> FALSE, ruleSet |-> [rules |-> <<>>], created_at |-> created,
     image |-> Undefined, productImage |-> Undefined]

ExistingRuleLists ==
    << <<TypeRule(BoomLift)>>,
       <<TypeRule(BoomLift), VendorRule(Genie)>>,
       <<MetaRule(Used, "101"), TypeRule(BoomLift)>> >>

SameRuleSet(r1, r2) ==
    {r1[i] : i \in 1..Len(r1)} = {r2[i] : i \in 1..Len(r2)}

NoDuplicateRuleSets(st) ==
    \A i, j \in 1..Len(st) : i # j => ~SameRuleSet(st[i].rules, st[j].rules)

\* Stores of up to MaxExisting collections, no two with the same rule set.
InitialStores ==
    {LET rl == SelectSeq([k \in 1..Len(ExistingRuleLists) |-> k], LAMBDA k : k \in S)
     IN [i \in 1..Len(rl) |->
            RestCollection(i, <<"c">>, <<"c">>, ExistingRuleLists[rl[i]], 0)] :
        S \in {T \in SUBSET (1..Len(ExistingRuleLists)) : Cardinality(T) <= MaxExisting}}

\* --------------------------------------------------- getProductByIdGraphQL
NullProduct ==
    [isNull |-> TRUE, productType |-> Empty, product_type |-> Empty,
     vendor |-> Empty, hasMetafields |-> FALSE, metafields |-> <<>>]

getProductByIdGraphQL(ok, sp) ==
    IF ok
    THEN [isNull |-> FALSE, productType |-> sp.productType,
          product_type |-> sp.productType, vendor |-> sp.vendor,
          hasMetafields |-> TRUE,
          metafields |-> [i \in 1..Len(sp.metafields.edges) |->
                             sp.metafields.edges[i].node]]
    ELSE NullProduct

DefinitionNodes(edges) == [i \in 1..Len(edges) |-> edges[i].node]

\* ----------------------------------------------------------- processProduct
UnitIdle == inputCombination = <<>> /\ collectionDetails = NullDetails /\ parsed = <<>>
DetIdle == candRules = <<>> /\ detResult = "none"

NullCollection == [isNull |-> TRUE]

EmptyRelated ==
    [byCategory |-> <<>>, byManufacturer |-> <<>>, bySizeItem |-> <<>>,
     bySpecs |-> [condition |-> <<>>, fuelType |-> <<>>], parts |-> <<>>]

\* A request body: whether JSON.parse accepts it and the product id it holds.
JsonBody(id) == [isJson |-> TRUE, id |-> id]
GarbageBody == [isJson |-> FALSE, id |-> ""]

\* The X-Shopify-Hmac-Sha256 header; a base64 SHA-256 digest has 44 characters.
MissingHeader == [present |-> FALSE, key |-> "", body |-> GarbageBody, length |-> 0]
Hmac(key, body) == [present |-> TRUE, key |-> key, body |-> body, length |-> 44]
ShortHeader == [present |-> TRUE, key |-> "", body |-> GarbageBody, length |-> 10]

NoRequest == [rawBody |-> GarbageBody, hmac |-> MissingHeader]

HookIdle ==
    /\ entry = "none"
    /\ req = NoRequest
    /\ res = 0
    /\ parsedBodies = <<>>
    /\ productQueue = <<>>
    /\ processCalls = <<>>
    /\ received = 0

ToolIdle ==
    /\ targetHandle = <<>>
    /\ collection = NullCollection
    /\ collectionAttributes = <<>>
    /\ related = EmptyRelated
    /\ allCollections = <<>>
    /\ collectionsByRules = <<>>
    /\ collectionsToDelete = <<>>
    /\ thrown = ""
    /\ HookIdle

CallOk(ok) == ok \/ failed < MaxFailures

\* ------------------------------------------------------- the create requests
\* What each create function sends to the store for the details it is given.
\* createSmartCollection of the REST module: title, rules, disjunctive: true.
createSmartCollection(details) ==
    [via |-> "rest", title |-> details.title, handle |-> Undefined,
     disjunctive |-> TRUE, published |-> TRUE, rules |-> details.rules]

\* createSmartCollection of the fragment in src/index.js: handle as well,
\* disjunctive: false.
createSmartCollectionWithHandle(details) ==
    [via |-> "rest", title |-> details.title, handle |-> details.handle,
     disjunctive |-> FALSE, published |-> TRUE, rules |-> details.rules]

ColumnUpper(c) ==
    CASE c = "type" -> "TYPE"
      [] c = "vendor" -> "VENDOR"
      [] c = "product_metafield_definition" -> "PRODUCT_METAFIELD_DEFINITION"
      [] OTHER -> c

\* rule.definition_id: undefined for an object without that property.
DefinitionIdOf(rule) ==
    IF "definition_id" \in DOMAIN rule THEN rule.definition_id ELSE Undefined

\* graphqlRules: the element built for one rule of the details.
GraphQLCreateRule(rule) ==
    [column |-> ColumnUpper(rule.column),
     relation |-> IF rule.relation = "equals" THEN "EQUALS" ELSE rule.relation,
     condition |-> rule.condition,
     conditionObjectId |->
        IF rule.column = "product_metafield_definition" /\ Truthy(DefinitionIdOf(rule))
        THEN <<"gid:", "", "shopify", "MetafieldDefinition">> \o DefinitionIdOf(rule)
        ELSE NoId]

\* createSmartCollectionGraphQL: the variables of the collectionCreate mutation.
createSmartCollectionGraphQL(details) ==
    [via |-> "graphql", title |-> details.title,
     handle |-> IF Truthy(details.handle) THEN details.handle ELSE Undefined,
     disjunctive |-> FALSE, published |-> TRUE,
     rules |-> [k \in 1..Len(details.rules) |-> GraphQLCreateRule(details.rules[k])]]

\* The first invocation, on a store whose listing starts with the modelled
\* collections.
NoSweep == [pc |-> "none"]

SweepIdle == productPages = <<>> /\ sweep = NoSweep

QueueIdle ==
    /\ running = <<>>
    /\ jobReports = <<>>

ServerIdle ==
    /\ QueueIdle
    /\ SweepIdle
    /\ clock = 0
    /\ lastRequestTime = 0
    /\ calls = <<>>
    /\ sendLog = <<>>

RunIdle ==
    /\ storeOthers = 0
    /\ run = 1
    /\ firstRun = <<>>
    /\ ServerIdle

ProcStart ==
    /\ pc = "start"
    /\ product = NullProduct
    /\ metafieldDefinitions = <<>>
    /\ existingCollections = <<>>
    /\ combinations = <<>>
    /\ idx = 1
    /\ requests = <<>>
    /\ failed = 0

ProcInit ==
    /\ ProcStart
    /\ RunIdle

Init ==
    /\ variant \in Variants
    /\ api \in ApisFor(variant)
    /\ storeProduct \in ProcessedProducts
    /\ storeDefs \in StoreDefinitionLists
    /\ store \in InitialStores
    /\ ProcInit
    /\ UnitIdle
    /\ DetIdle
    /\ ToolIdle

storeInputs == <<variant, api, storeProduct, storeDefs, storeOthers, run, firstRun>>
inputVars == <<storeInputs, serverVars, limiterVars, sweepVars>>

FetchProduct ==
    /\ pc = "start"
    /\ \E ok \in BOOLEAN :
          /\ CallOk(ok)
          /\ product' = getProductByIdGraphQL(ok, storeProduct)
          /\ pc' = IF ok THEN "defs" ELSE "done"
          /\ failed' = IF ok THEN failed ELSE failed + 1
    /\ UNCHANGED <<inputVars, store, metafieldDefinitions,
                   existingCollections, combinations, idx, requests>>
    /\ UNCHANGED <<unitVars, detVars, toolVars>>

FetchDefinitions ==
    /\ pc = "defs"
    /\ \E ok \in BOOLEAN :
          /\ CallOk(ok)
          /\ metafieldDefinitions' =
                getProductMetafieldDefinitions(variant, ok, DefinitionNodes(storeDefs))
          /\ failed' = IF ok THEN failed ELSE failed + 1
    /\ pc' = "existing"
    /\ UNCHANGED <<inputVars, store, product,
                   existingCollections, combinations, idx, requests>>
    /\ UNCHANGED <<unitVars, detVars, toolVars>>

\* The REST listing: one request for smart_collections.json?limit=250, whose
\* answer is returned as it is. Of a store that lists `others` collections
\* before those of `collections`, the answer holds what is left of the page.
PageLimit == 250

FirstPage(others, collections) ==
    IF others >= PageLimit
    THEN <<>>
    ELSE SubSeq(collections, 1,
                IF Len(collections) <= PageLimit - others
                THEN Len(collections) ELSE PageLimit - others)

getExistingSmartCollections(others, collections) == FirstPage(others, collections)

\* shopifyApi.getExistingSmartCollections(), then generateAttributeCombinations.
\* Calling a function the linked module does not export throws a TypeError,
\* which the try/catch of processProduct logs: the run ends.
FetchExisting ==
    /\ pc = "existing"
    /\ IF "getExistingSmartCollections" \in Exports(api)
       THEN \E ok \in BOOLEAN :
               /\ CallOk(ok)
               /\ existingCollections' =
                     IF ok THEN getExistingSmartCollections(storeOthers, store) ELSE <<>>
               /\ failed' = IF ok THEN failed ELSE failed + 1
               /\ combinations' = generateAttributeCombinations(variant, product)
               /\ idx' = 1
               /\ pc' = "loop"
       ELSE /\ pc' = "done"
            /\ UNCHANGED <<existingCollections, failed, combinations, idx>>
    /\ UNCHANGED <<inputVars, store, product, metafieldDefinitions, requests>>
    /\ UNCHANGED <<unitVars, detVars, toolVars>>

CurrentDetails ==
    createCollectionDetails(variant, combinations[idx], metafieldDefinitions)

NextIndexRetry(i, created) == IF created THEN i + 1 ELSE i

\* "for (const combination of combinations)": createSmartCollection gives null
\* for a request that failed, and the loop goes on to the next combination.
NextIndex(i, created) == i + 1

\* One iteration of the loop over the combinations.
CreateStep ==
    /\ pc = "loop"
    /\ idx <= Len(combinations)
    /\ \E details \in {CurrentDetails} :
          IF details.isNull
             \/ doesSimilarCollectionExist(details.rules, existingCollections)
          THEN /\ idx' = idx + 1
               /\ UNCHANGED <<store, requests, failed>>
          ELSE \E ok \in BOOLEAN :
                  /\ CallOk(ok)
                  /\ requests' = Append(requests, createSmartCollection(details))
                  /\ store' = IF ok
                              THEN Append(store,
                                     RestCollection(Len(store) + 1, details.title,
                                                    details.handle, details.rules, 0))
                              ELSE store
                  /\ failed' = IF ok THEN failed ELSE failed + 1
                  /\ idx' = NextIndex(idx, ok)
    /\ UNCHANGED <<inputVars, pc, product,
                   metafieldDefinitions, existingCollections, combinations>>
    /\ UNCHANGED <<unitVars, detVars, toolVars>>

FinishProduct ==
    /\ pc = "loop"
    /\ idx > Len(combinations)
    /\ pc' = "done"
    /\ UNCHANGED <<inputVars, store, product,
                   metafieldDefinitions, existingCollections, combinations, idx,
                   requests, failed>>
    /\ UNCHANGED <<unitVars, detVars, toolVars>>

Next ==
    \/ FetchProduct
    \/ FetchDefinitions
    \/ FetchExisting
    \/ CreateStep
    \/ FinishProduct

Spec == Init /\ [][Next]_vars

\* ------------------------------------------------- two invocations in a row
\* processProduct(productId) called again for the same product once the first
\* call has returned: the store is what the first call left, everything else
\* starts afresh. The store may already hold a page of other collections.
StoreSizes == {0, PageLimit}

TwiceInit ==
    /\ variant \in Variants
    /\ api \in ApisFor(variant)
    /\ storeProduct \in ProcessedProducts
    /\ storeDefs \in StoreDefinitionLists
    /\ store \in InitialStores
    /\ storeOthers \in StoreSizes
    /\ run = 1
    /\ firstRun = <<>>
    /\ ServerIdle
    /\ ProcStart
    /\ UnitIdle
    /\ DetIdle
    /\ ToolIdle

ProcessAgain ==
    /\ pc = "done"
    /\ run = 1
    /\ run' = 2
    /\ firstRun' = requests
    /\ requests' = <<>>
    /\ pc' = "start"
    /\ product' = NullProduct
    /\ metafieldDefinitions' = <<>>
    /\ existingCollections' = <<>>
    /\ combinations' = <<>>
    /\ idx' = 1
    /\ UNCHANGED <<variant, api, storeProduct, storeDefs, storeOthers, store, failed>>
    /\ UNCHANGED <<unitVars, detVars, toolVars, serverVars, limiterVars, sweepVars>>

TwiceNext ==
    \/ FetchProduct
    \/ FetchDefinitions
    \/ FetchExisting
    \/ CreateStep
    \/ FinishProduct
    \/ ProcessAgain

SpecTwice == TwiceInit /\ [][TwiceNext]_vars

\* ------------------------------------------------------- the pure functions
\* generateAttributeCombinations, createCollectionDetails and
\* parseCollectionAttributes applied to every product and definition list, the
\* combination handed over in every insertion order.
Perms(seq) ==
    {[i \in 1..Len(seq) |-> seq[f[i]]] :
        f \in {g \in [1..Len(seq) -> 1..Len(seq)] :
                  \A a, b \in 1..Len(seq) : a # b => g[a] # g[b]}}

UnitDefinitionLists ==
    StoreDefinitionLists
    \cup {<<SizeDef, FuelDef>>,
          <<DefEdge("105", "condition"), ConditionDef, SizeDef, FuelDef,
            DefEdge("106", "vendor")>>}

UnitInit ==
    /\ variant \in Variants
    /\ api = IF variant = "root" THEN "rest" ELSE "graphql"
    /\ storeProduct \in StoreProducts
    /\ storeDefs \in UnitDefinitionLists
    /\ store = <<>>
    /\ pc = "u_start"
    /\ product = getProductByIdGraphQL(TRUE, storeProduct)
    /\ metafieldDefinitions =
          getProductMetafieldDefinitions(variant, TRUE, DefinitionNodes(storeDefs))
    /\ existingCollections = <<>>
    /\ combinations = <<>>
    /\ idx = 1
    /\ requests = <<>>
    /\ failed = 0
    /\ RunIdle
    /\ UnitIdle
    /\ DetIdle
    /\ ToolIdle

UnitGenerate ==
    /\ pc = "u_start"
    /\ combinations' = generateAttributeCombinations(variant, product)
    /\ pc' = "u_generated"
    /\ UNCHANGED <<inputVars, store, product, metafieldDefinitions,
                   existingCollections, idx, requests, failed, unitVars, detVars, toolVars>>

UnitBuild ==
    /\ pc = "u_generated"
    /\ \E i \in 1..Len(combinations) :
          \E c \in Perms(combinations[i]) :
             /\ idx' = i
             /\ inputCombination' = c
             /\ collectionDetails' = createCollectionDetails(variant, c, metafieldDefinitions)
    /\ pc' = "u_built"
    /\ UNCHANGED <<inputVars, store, product, metafieldDefinitions,
                   existingCollections, combinations, requests, failed, parsed,
                   detVars, toolVars>>

\* parseCollectionAttributes exists in web/collection-generator.js only.
UnitParse ==
    /\ pc = "u_built"
    /\ variant = "web"
    /\ ~collectionDetails.isNull
    /\ parsed' = parseCollectionAttributes(
                    RestCollection(1, collectionDetails.title, collectionDetails.handle, collectionDetails.rules, 0),
                    metafieldDefinitions)
    /\ pc' = "u_parsed"
    /\ UNCHANGED <<inputVars, store, product, metafieldDefinitions,
                   existingCollections, combinations, idx, requests, failed, inputCombination,
                   collectionDetails, detVars, toolVars>>

\* The details handed to a create function, as processProduct and the test of
\* part_002 do. createSmartCollectionGraphQL sends nothing when the shop has no
\* publication.
Creators == {"part_000", "index", "graphql"}

UnitCreate ==
    /\ pc = "u_built"
    /\ ~collectionDetails.isNull
    /\ \E creator \in Creators, publications \in BOOLEAN :
          /\ creator # "graphql" => publications
          /\ requests' =
                IF creator = "part_000"
                THEN <<createSmartCollection(collectionDetails)>>
                ELSE IF creator = "index"
                THEN <<createSmartCollectionWithHandle(collectionDetails)>>
                ELSE IF publications
                THEN <<createSmartCollectionGraphQL(collectionDetails)>>
                ELSE <<>>
    /\ pc' = "u_sent"
    /\ UNCHANGED <<inputVars, store, product, metafieldDefinitions,
                   existingCollections, combinations, idx, failed, unitVars,
                   detVars, toolVars>>

UnitNext == UnitGenerate \/ UnitBuild \/ UnitParse \/ UnitCreate

SpecUnit == UnitInit /\ [][UnitNext]_vars

\* ------------------------------------------- doesSimilarCollectionExist alone
\* The store's smart collections as its GraphQL interface returns them.
DefinitionKey(n) ==
    CASE n = "101" -> "Condition"
      [] n = "102" -> "size_item"
      [] n = "103" -> "fuel_type"
      [] OTHER -> "color"

GraphQLRule(r) ==
    [column |-> ColumnUpper(r.column), relation |-> "EQUALS", condition |-> r.condition,
     conditionObject |->
        IF r.column = "product_metafield_definition"
        THEN [hasDefinition |-> TRUE,
              metafieldDefinition |->
                 [id |-> Gid("MetafieldDefinition", r.condition_object_id[1]),
                  key |-> DefinitionKey(r.condition_object_id[1])]]
        ELSE [hasDefinition |-> FALSE,
              metafieldDefinition |-> [id |-> NoId, key |-> ""]]]

GraphQLCollection(i, t, h, rs, img) ==
    [id |-> i, title |-> t, handle |-> h, hasRules |-> FALSE, rules |-> <<>>,
     hasRuleSet |-> TRUE,
     ruleSet |-> [rules |-> [k \in 1..Len(rs) |-> GraphQLRule(rs[k])]],
     created_at |-> 0, image |-> Undefined, productImage |-> img]

\* The same collection as the REST interface returns it, the definition
\* reference of a metafield rule either the bare number or the gid.
RestRule(r, gid) ==
    [column |-> ColumnLower(r.column), relation |-> "equals", condition |-> r.condition,
     condition_object_id |->
        IF ~r.conditionObject.hasDefinition THEN NoId
        ELSE IF gid THEN r.conditionObject.metafieldDefinition.id
        ELSE SplitPop(r.conditionObject.metafieldDefinition.id)]

RestShape(c, gid) ==
    IF ~c.hasRuleSet THEN c
    ELSE RestCollection(c.id, c.title, c.handle,
                        [k \in 1..Len(c.ruleSet.rules) |-> RestRule(c.ruleSet.rules[k], gid)],
                        0)

DetectorRules ==
    {TypeRule(BoomLift), VendorRule(Genie), MetaRule(Used, "101"),
     MetaRule(Used, "102")}

DetectorRuleLists == UNION {[1..k -> DetectorRules] : k \in 0..MaxRules}

\* A collection in the GraphQL shape has no rules field.
NoRulesCollection ==
    [id |-> 9, title |-> <<"c">>, handle |-> <<"c">>, hasRules |-> FALSE,
     rules |-> <<>>, hasRuleSet |-> TRUE, ruleSet |-> [rules |-> <<>>],
     created_at |-> 0, image |-> Undefined, productImage |-> Undefined]

SecondCollections ==
    {NoRulesCollection,
     RestCollection(2, <<"c">>, <<"c">>, <<VendorRule(Genie), TypeRule(BoomLift)>>, 0),
     RestCollection(2, <<"c">>, <<"c">>, <<MetaRule(Used, "101")>>, 0)}

DetectorExisting ==
    {<<>>}
    \cup {<<RestCollection(1, <<"c">>, <<"c">>, rl, 0)>> : rl \in DetectorRuleLists}
    \cup {<<GraphQLCollection(1, <<"c">>, <<"c">>, rl, Undefined)>> :
             rl \in DetectorRuleLists}
    \cup {<<RestCollection(1, <<"c">>, <<"c">>, rl, 0), c2>> :
             rl \in DetectorRuleLists, c2 \in SecondCollections}

DetInit ==
    /\ variant \in Variants
    /\ api = IF variant = "root" THEN "rest" ELSE "graphql"
    /\ storeProduct = StoreProduct(Empty, Empty, <<>>)
    /\ storeDefs = <<>>
    /\ store = <<>>
    /\ pc = "d_start"
    /\ product = NullProduct
    /\ metafieldDefinitions = <<>>
    /\ existingCollections \in DetectorExisting
    /\ combinations = <<>>
    /\ idx = 1
    /\ requests = <<>>
    /\ failed = 0
    /\ RunIdle
    /\ UnitIdle
    /\ ToolIdle
    /\ candRules \in DetectorRuleLists
    /\ detResult = "none"

DetectorCheck ==
    /\ pc = "d_start"
    /\ detResult' = doesSimilarCollectionExist(candRules, existingCollections)
    /\ pc' = "d_done"
    /\ UNCHANGED <<inputVars, store, product, metafieldDefinitions,
                   existingCollections, combinations, idx, requests, failed,
                   unitVars, candRules, toolVars>>

DetNext == DetectorCheck

SpecDetector == DetInit /\ [][DetNext]_vars


\* ----------------------------------------------------- getRelatedCollections
NullImage == <<"null">>

getCollectionImageUrl(aCollection) ==
    IF Truthy(aCollection.image) THEN aCollection.image
    ELSE IF Truthy(aCollection.productImage) THEN aCollection.productImage
    ELSE NullImage

CollectionRef(otherCollection) ==
    [title |-> otherCollection.title, handle |-> otherCollection.handle,
     image |-> getCollectionImageUrl(otherCollection)]

\* The current collection is never skipped.
IsCurrentCollectionNever(otherCollection, collectionHandle) == FALSE

IsCurrentCollection(otherCollection, collectionHandle) ==
    otherCollection.handle = collectionHandle

InCategory(otherAttributes, productType) ==
    ObjGet(otherAttributes, "product_type") = productType

\* A drill-down tab filled whether or not the current collection filters on it.
InDrillDownUngated(currentAttributes, productType, otherAttributes, attr) ==
    /\ Truthy(productType)
    /\ ObjGet(otherAttributes, "product_type") = productType
    /\ Truthy(ObjGet(otherAttributes, attr))

InDrillDown(currentAttributes, productType, otherAttributes, attr) ==
    /\ ~Truthy(ObjGet(currentAttributes, attr))
    /\ Truthy(productType)
    /\ ObjGet(otherAttributes, "product_type") = productType
    /\ Truthy(ObjGet(otherAttributes, attr))

PushIf(list, cond, x) == IF cond THEN Append(list, x) ELSE list

ProductTypeOf(currentAttributes) ==
    IF Truthy(ObjGet(currentAttributes, "product_type"))
    THEN ObjGet(currentAttributes, "product_type") ELSE Empty

RelatedAfter(rel, currentAttributes, otherCollection, otherAttributes) ==
    LET productType == ProductTypeOf(currentAttributes)
        ref == CollectionRef(otherCollection)
        In(attr) == InDrillDown(currentAttributes, productType, otherAttributes, attr)
    IN [byCategory |-> PushIf(rel.byCategory,
                              InCategory(otherAttributes, productType), ref),
        byManufacturer |-> PushIf(rel.byManufacturer, In("vendor"), ref),
        bySizeItem |-> PushIf(rel.bySizeItem, In("size_item"), ref),
        bySpecs |-> [condition |-> PushIf(rel.bySpecs.condition, In("condition"), ref),
                     fuelType |-> PushIf(rel.bySpecs.fuelType, In("fuel_type"), ref)],
        parts |-> rel.parts]

PartsCollections ==
    << [title |-> <<"G","e","n","i","e"," ","P","a","r","t","s">>,
        handle |-> <<"g","e","n","i","e","-","p","a","r","t","s">>],
       [title |-> <<"J","L","G"," ","P","a","r","t","s">>,
        handle |-> <<"j","l","g","-","p","a","r","t","s">>],
       [title |-> <<"S","k","y","j","a","c","k"," ","P","a","r","t","s">>,
        handle |-> <<"s","k","y","j","a","c","k","-","p","a","r","t","s">>],
       [title |-> <<"H","a","u","l","a","g","e"," ","P","a","r","t","s">>,
        handle |-> <<"h","a","u","l","a","g","e","-","p","a","r","t","s">>] >>

AllDefinitions ==
    << <<"condition", <<"101">> >>, <<SizeAttr("web"), <<"102">> >>,
       <<"fuel_type", <<"103">> >> >>

CatalogCombinations ==
    << << <<"product_type", BoomLift>> >>,
       << <<"product_type", BoomLift>>, <<"vendor", Genie>> >>,
       << <<"product_type", BoomLift>>, <<"condition", Used>> >>,
       << <<"product_type", BoomLift>>, <<"size_item", Size30>> >>,
       << <<"product_type", BoomLift>>, <<"vendor", Genie>>,
          <<"fuel_type", Electric>> >>,
       << <<"product_type", Parts>>, <<"vendor", Genie>> >>,
       << <<"vendor", Genie>> >>,
       << <<"product_type", Parts>> >> >>

ImageUrl == <<"u", "r", "l">>

CatalogCollection(i) ==
    LET d == createCollectionDetails("web", CatalogCombinations[i], AllDefinitions)
    IN GraphQLCollection(i, d.title, d.handle, d.rules,
                         IF i % 2 = 0 THEN ImageUrl ELSE Undefined)

CatalogPool == [i \in 1..Len(CatalogCombinations) |-> CatalogCollection(i)]

Catalogs ==
    {SelectSeq(CatalogPool, LAMBDA c : c.id \in S) :
        S \in {T \in SUBSET (1..Len(CatalogPool)) : Cardinality(T) <= MaxCatalog}}

\* A custom collection: it has no rule set.
CustomCollection ==
    [id |-> 50, title |-> <<"F">>, handle |-> <<"f">>, hasRules |-> FALSE,
     rules |-> <<>>, hasRuleSet |-> FALSE, ruleSet |-> [rules |-> <<>>],
     created_at |-> 0, image |-> ImageUrl, productImage |-> Undefined]

TargetHandles ==
    {CatalogPool[i].handle : i \in 1..Len(CatalogPool)}
    \cup {CustomCollection.handle, <<"x">>}

RelatedDefinitionLists == {<<>>, <<ConditionDef, SizeDef, FuelDef>>}

WithHandle(st, h) == SelectSeq(st \o <<CustomCollection>>, LAMBDA c : c.handle = h)

RelInit ==
    /\ variant = "web"
    /\ api \in ApisFor(variant)
    /\ storeProduct = StoreProduct(Empty, Empty, <<>>)
    /\ storeDefs \in RelatedDefinitionLists
    /\ store \in Catalogs
    /\ ProcInit
    /\ UnitIdle
    /\ DetIdle
    /\ targetHandle \in TargetHandles
    /\ collection = NullCollection
    /\ collectionAttributes = <<>>
    /\ related = EmptyRelated
    /\ allCollections = <<>>
    /\ collectionsByRules = <<>>
    /\ collectionsToDelete = <<>>
    /\ thrown = ""
    /\ HookIdle

relInputs == <<inputVars, store, product, existingCollections, combinations, requests,
               unitVars, detVars, cleanVars, targetHandle, hookVars>>

\* shopifyApi.getCollectionByHandle: the GraphQL lookup, then the two REST
\* lookups; null for a failed call or an unknown handle.
RelGetCollection ==
    /\ pc = "start"
    /\ targetHandle # <<>>
    /\ IF "getCollectionByHandle" \notin Exports(api)
       THEN /\ thrown' = "TypeError"
            /\ pc' = "thrown"
            /\ UNCHANGED <<collection, failed>>
       ELSE \E how \in {"graphql", "rest", "restGid", "failed"} :
               LET found == WithHandle(store, targetHandle)
                   result ==
                      IF how = "failed" \/ found = <<>> THEN NullCollection
                      ELSE IF how = "graphql" THEN found[1]
                      ELSE RestShape(found[1], how = "restGid")
               IN /\ how = "failed" => failed < MaxFailures
                  /\ failed' = IF how = "failed" THEN failed + 1 ELSE failed
                  /\ collection' = result
                  /\ IF result = NullCollection
                     THEN thrown' = "Collection not found" /\ pc' = "thrown"
                     ELSE thrown' = "" /\ pc' = "definitions"
    /\ UNCHANGED <<relInputs, metafieldDefinitions, collectionAttributes, related,
                   allCollections, idx>>

RelGetDefinitions ==
    /\ pc = "definitions"
    /\ \E ok \in BOOLEAN :
          /\ CallOk(ok)
          /\ failed' = IF ok THEN failed ELSE failed + 1
          /\ metafieldDefinitions' =
                getProductMetafieldDefinitions(variant, ok, DefinitionNodes(storeDefs))
    /\ pc' = "parse"
    /\ UNCHANGED <<relInputs, collection, collectionAttributes, related,
                   allCollections, idx, thrown>>

RelParse ==
    /\ pc = "parse"
    /\ collectionAttributes' = parseCollectionAttributes(collection, metafieldDefinitions)
    /\ pc' = "catalog"
    /\ UNCHANGED <<relInputs, collection, metafieldDefinitions, related,
                   allCollections, idx, thrown, failed>>

\* shopifyApi.getExistingSmartCollectionsGraphQL: [] when the call fails.
RelGetAll ==
    /\ pc = "catalog"
    /\ \E ok \in BOOLEAN :
          /\ CallOk(ok)
          /\ failed' = IF ok THEN failed ELSE failed + 1
          /\ allCollections' = IF ok THEN store ELSE <<>>
    /\ related' = EmptyRelated
    /\ idx' = 1
    /\ pc' = "others"
    /\ UNCHANGED <<relInputs, collection, metafieldDefinitions, collectionAttributes,
                   thrown>>

RelLoopStep ==
    /\ pc = "others"
    /\ idx <= Len(allCollections)
    /\ LET otherCollection == allCollections[idx]
           otherAttributes ==
              parseCollectionAttributes(otherCollection, metafieldDefinitions)
       IN related' =
             IF IsCurrentCollection(otherCollection, targetHandle) THEN related
             ELSE RelatedAfter(related, collectionAttributes, otherCollection,
                               otherAttributes)
    /\ idx' = idx + 1
    /\ UNCHANGED <<relInputs, collection, metafieldDefinitions, collectionAttributes,
                   allCollections, thrown, failed, pc>>

RelFinish ==
    /\ pc = "others"
    /\ idx > Len(allCollections)
    /\ related' = [related EXCEPT !.parts = PartsCollections]
    /\ pc' = "returned"
    /\ UNCHANGED <<relInputs, collection, metafieldDefinitions, collectionAttributes,
                   allCollections, thrown, failed, idx>>

\* GET /related-collections/:collectionHandle: 200 with the result, or 500
\* with {success: false, error: error.message} when getRelatedCollections threw.
RouteStatusAlwaysOk(message) == 200

RouteStatus(message) == IF message # "" THEN 500 ELSE 200

RelRespond ==
    /\ pc \in {"thrown", "returned"}
    /\ res' = RouteStatus(thrown)
    /\ pc' = "answered"
    /\ UNCHANGED <<inputVars, store, product, existingCollections, combinations,
                   requests, unitVars, detVars, cleanVars, targetHandle>>
    /\ UNCHANGED <<entry, req, parsedBodies, productQueue, processCalls, received>>
    /\ UNCHANGED <<collection, metafieldDefinitions, collectionAttributes, related,
                   allCollections, thrown, failed, idx>>

RelNext ==
    \/ RelRespond
    \/ RelGetCollection
    \/ RelGetDefinitions
    \/ RelParse
    \/ RelGetAll
    \/ RelLoopStep
    \/ RelFinish

SpecRelated == RelInit /\ [][RelNext]_vars


\* ------------------------------------------------ cleanupDuplicateCollections
\* The characters of the model in code-unit order, for the < of strings.
CodeUnitOrder == <<" ", "\"", "'", "-">> \o DigitSeq \o UpperSeq \o <<"_">> \o LowerSeq

RECURSIVE StringLess(_, _)
StringLess(a, b) ==
    IF b = <<>> THEN FALSE
    ELSE IF a = <<>> THEN TRUE
    ELSE IF IndexOf(CodeUnitOrder, Head(a)) < IndexOf(CodeUnitOrder, Head(b)) THEN TRUE
    ELSE IF IndexOf(CodeUnitOrder, Head(a)) > IndexOf(CodeUnitOrder, Head(b)) THEN FALSE
    ELSE StringLess(Tail(a), Tail(b))

ColumnOrder == <<"product_metafield_definition", "title", "type", "vendor">>

ColumnLess(a, b) == IndexOf(ColumnOrder, a) < IndexOf(ColumnOrder, b)

\* The comparator of the rule sort: by column, then by condition, else 0.
CompareRules(a, b) ==
    IF ColumnLess(a.column, b.column) THEN -1
    ELSE IF ColumnLess(b.column, a.column) THEN 1
    ELSE IF StringLess(a.condition, b.condition) THEN -1
    ELSE IF StringLess(b.condition, a.condition) THEN 1
    ELSE 0

\* Array.prototype.sort is stable: elements that compare 0 keep their order.
RECURSIVE InsertRule(_, _)
InsertRule(sorted, x) ==
    IF sorted = <<>> THEN <<x>>
    ELSE IF CompareRules(x, sorted[Len(sorted)]) < 0
    THEN Append(InsertRule(SubSeq(sorted, 1, Len(sorted) - 1), x), sorted[Len(sorted)])
    ELSE Append(sorted, x)

RECURSIVE SortRules(_)
SortRules(list) ==
    IF list = <<>> THEN <<>>
    ELSE InsertRule(SortRules(SubSeq(list, 1, Len(list) - 1)), list[Len(list)])

RuleText(rule) ==
    <<rule.column, ":", rule.relation, ":">> \o rule.condition
       \o (IF Truthy(rule.condition_object_id)
           THEN <<":">> \o rule.condition_object_id ELSE <<>>)

ruleKeyOf(rules) ==
    LET sortedRules == SortRules(rules)
    IN Join([i \in 1..Len(sortedRules) |-> RuleText(sortedRules[i])], <<"|">>)

GroupAfter(groups, aCollection) ==
    IF ~aCollection.hasRules \/ Len(aCollection.rules) = 0 THEN groups
    ELSE LET ruleKey == ruleKeyOf(aCollection.rules)
         IN IF ObjHas(groups, ruleKey)
            THEN ObjSet(groups, ruleKey, Append(ObjGet(groups, ruleKey), aCollection))
            ELSE ObjSet(groups, ruleKey, <<aCollection>>)

\* The age comparator looking at the ids only.
CompareAgeByIdOnly(a, b) == a.id - b.id

\* created_at = 0 stands for a collection without the field.
CompareAge(a, b) ==
    IF a.created_at # 0 /\ b.created_at # 0 THEN a.created_at - b.created_at
    ELSE a.id - b.id

RECURSIVE InsertByAge(_, _)
InsertByAge(sorted, x) ==
    IF sorted = <<>> THEN <<x>>
    ELSE IF CompareAge(x, sorted[Len(sorted)]) < 0
    THEN Append(InsertByAge(SubSeq(sorted, 1, Len(sorted) - 1), x), sorted[Len(sorted)])
    ELSE Append(sorted, x)

RECURSIVE SortByAge(_)
SortByAge(list) ==
    IF list = <<>> THEN <<>>
    ELSE InsertByAge(SortByAge(SubSeq(list, 1, Len(list) - 1)), list[Len(list)])

RECURSIVE PlanDeletions(_, _)
PlanDeletions(groups, planned) ==
    IF groups = <<>> THEN planned
    ELSE LET collectionsWithSameRules == SortByAge(Head(groups)[2])
         IN PlanDeletions(
               Tail(groups),
               IF Len(collectionsWithSameRules) > 1
               THEN planned \o [i \in 1..Len(collectionsWithSameRules) - 1 |->
                                   collectionsWithSameRules[i + 1].id]
               ELSE planned)

CleanupRuleLists ==
    {<<>>,
     <<VendorRule(Genie), TypeRule(BoomLift)>>,
     <<TypeRule(BoomLift), VendorRule(Genie)>>,
     <<MetaRule(Used, "101"), MetaRule(Used, "102")>>,
     <<MetaRule(Used, "102"), MetaRule(Used, "101")>>}

CleanupStores ==
    UNION {{[i \in 1..n |->
               RestCollection(i, <<"c">>, <<"c">>, rl[i], IF dated[i] THEN 10 - i ELSE 0)] :
              rl \in [1..n -> CleanupRuleLists], dated \in [1..n -> BOOLEAN]} :
           n \in 0..MaxCleanup}

CleanInit ==
    /\ variant = "web"
    /\ api \in ApisFor(variant)
    /\ storeProduct = StoreProduct(Empty, Empty, <<>>)
    /\ storeDefs = <<>>
    /\ store \in CleanupStores
    /\ ProcInit
    /\ UnitIdle
    /\ DetIdle
    /\ ToolIdle

cleanInputs == <<inputVars, product, metafieldDefinitions, existingCollections,
                 combinations, unitVars, detVars, relVars, hookVars>>

\* axios.delete(`${shopifyApiUrl}/smart_collections/${collectionId}.json`)
deleteSmartCollection(collectionId) ==
    [via |-> "rest", method |-> "DELETE", id |-> collectionId]

\* shopifyApi.getExistingSmartCollections: [] when the call fails.
CleanFetch ==
    /\ pc = "start"
    /\ IF "getExistingSmartCollections" \notin Exports(api)
       THEN /\ thrown' = "TypeError"
            /\ pc' = "ended"
            /\ UNCHANGED <<allCollections, failed>>
       ELSE /\ \E ok \in BOOLEAN :
                  /\ CallOk(ok)
                  /\ failed' = IF ok THEN failed ELSE failed + 1
                  /\ allCollections' = IF ok THEN store ELSE <<>>
            /\ pc' = "group"
            /\ UNCHANGED thrown
    /\ idx' = 1
    /\ UNCHANGED <<cleanInputs, store, cleanVars, requests>>

CleanGroupStep ==
    /\ pc = "group"
    /\ idx <= Len(allCollections)
    /\ collectionsByRules' = GroupAfter(collectionsByRules, allCollections[idx])
    /\ idx' = idx + 1
    /\ UNCHANGED <<cleanInputs, store, allCollections, collectionsToDelete, thrown, requests,
                   failed, pc>>

CleanPlan ==
    /\ pc = "group"
    /\ idx > Len(allCollections)
    /\ collectionsToDelete' = PlanDeletions(collectionsByRules, <<>>)
    /\ idx' = 1
    /\ pc' = "delete"
    /\ UNCHANGED <<cleanInputs, store, allCollections, collectionsByRules, thrown, requests,
                   failed>>

\* shopifyApi.deleteSmartCollection answers false when the request fails; a
\* module without the function makes the call throw inside the inner try.
CleanDeleteStep ==
    /\ pc = "delete"
    /\ idx <= Len(collectionsToDelete)
    /\ IF "deleteSmartCollection" \notin Exports(api)
       THEN UNCHANGED <<store, failed, requests>>
       ELSE \E ok \in BOOLEAN :
               /\ CallOk(ok)
               /\ failed' = IF ok THEN failed ELSE failed + 1
               /\ requests' = Append(requests,
                                     deleteSmartCollection(collectionsToDelete[idx]))
               /\ store' = IF ok
                           THEN SelectSeq(store,
                                          LAMBDA c : c.id # collectionsToDelete[idx])
                           ELSE store
    /\ idx' = idx + 1
    /\ UNCHANGED <<cleanInputs, allCollections, cleanVars, thrown, pc>>

CleanFinish ==
    /\ pc = "delete"
    /\ idx > Len(collectionsToDelete)
    /\ pc' = "ended"
    /\ UNCHANGED <<cleanInputs, store, allCollections, cleanVars, thrown, failed, idx,
                   requests>>

CleanNext ==
    \/ CleanFetch
    \/ CleanGroupStep
    \/ CleanPlan
    \/ CleanDeleteStep
    \/ CleanFinish

SpecCleanup == CleanInit /\ [][CleanNext]_vars


\* ------------------------------------------- POST /webhooks/products/create
SECRET_KEY == "shpss"

Entries == {"index", "part_001", "web"}

Bodies == {JsonBody("1"), JsonBody("2"), GarbageBody}

HeadersFor(body) ==
    {MissingHeader, ShortHeader, Hmac(SECRET_KEY, body), Hmac("guess", body)}
    \cup {Hmac(SECRET_KEY, b) : b \in Bodies}

\* crypto.timingSafeEqual throws for buffers of different length, Buffer.from
\* throws for undefined: both end in the 403 of the inner catch.
HmacValidTimingSafe(hash, hmac) ==
    /\ hmac.present
    /\ hmac.length = hash.length
    /\ hmac = hash

\* part_001: hash !== hmac.
HmacValidCompare(hash, hmac) == hmac.present /\ hmac = hash

HmacAccepted(e, request) ==
    LET hash == Hmac(SECRET_KEY, request.rawBody)
    IN CASE e = "web" -> HmacValidTimingSafe(hash, request.hmac)
         [] e = "part_001" -> HmacValidCompare(hash, request.hmac)
         [] OTHER -> TRUE

Task(request) == [productId |-> request.rawBody.id, from |-> request]

HookInit ==
    /\ variant = "web"
    /\ api = "graphql"
    /\ storeProduct = StoreProduct(Empty, Empty, <<>>)
    /\ storeDefs = <<>>
    /\ store = <<>>
    /\ ProcInit
    /\ pc = "start"
    /\ UnitIdle
    /\ DetIdle
    /\ targetHandle = <<>>
    /\ collection = NullCollection
    /\ collectionAttributes = <<>>
    /\ related = EmptyRelated
    /\ allCollections = <<>>
    /\ collectionsByRules = <<>>
    /\ collectionsToDelete = <<>>
    /\ thrown = ""
    /\ entry \in Entries
    /\ req = NoRequest
    /\ res = 0
    /\ parsedBodies = <<>>
    /\ productQueue = <<>>
    /\ processCalls = <<>>
    /\ received = 0

hookInputs == <<inputVars, store, product, metafieldDefinitions, existingCollections,
                combinations, idx, requests, failed, unitVars, detVars, relVars,
                cleanVars, allCollections, thrown, entry>>

HookReceive ==
    /\ pc = "start"
    /\ received < MaxRequests
    /\ \E body \in Bodies : \E h \in HeadersFor(body) :
          req' = [rawBody |-> body, hmac |-> h]
    /\ res' = 0
    /\ received' = received + 1
    /\ pc' = "verify"
    /\ UNCHANGED <<hookInputs, parsedBodies, productQueue, processCalls>>

\* The signature check; in src/index.js the body-parser middleware instead.
HookVerify ==
    /\ pc = "verify"
    /\ IF entry = "index"
       THEN IF req.rawBody.isJson
            THEN /\ parsedBodies' = Append(parsedBodies, req)
                 /\ pc' = "handle"
                 /\ UNCHANGED res
            ELSE /\ res' = 400
                 /\ pc' = "start"
                 /\ UNCHANGED parsedBodies
       ELSE IF HmacAccepted(entry, req)
            THEN pc' = "parse" /\ UNCHANGED <<res, parsedBodies>>
            ELSE res' = 403 /\ pc' = "start" /\ UNCHANGED parsedBodies
    /\ UNCHANGED <<hookInputs, req, productQueue, processCalls, received>>

\* JSON.parse(body); a syntax error ends in the 500 of the outer catch.
HookParse ==
    /\ pc = "parse"
    /\ IF req.rawBody.isJson
       THEN /\ parsedBodies' = Append(parsedBodies, req)
            /\ pc' = "handle"
            /\ UNCHANGED res
       ELSE /\ res' = 500
            /\ pc' = "start"
            /\ UNCHANGED parsedBodies
    /\ UNCHANGED <<hookInputs, req, productQueue, processCalls, received>>

\* web/index.js answers and pushes the id on productQueue; the other two
\* await processProduct and answer.
HookHandle ==
    /\ pc = "handle"
    /\ res' = 200
    /\ IF entry = "web"
       THEN /\ productQueue' = Append(productQueue, Task(req))
            /\ UNCHANGED processCalls
       ELSE /\ processCalls' = Append(processCalls, Task(req))
            /\ UNCHANGED productQueue
    /\ pc' = "start"
    /\ UNCHANGED <<hookInputs, req, parsedBodies, received>>

\* productQueue hands the next task to processProduct.
HookWorker ==
    /\ productQueue # <<>>
    /\ processCalls' = Append(processCalls, Head(productQueue))
    /\ productQueue' = Tail(productQueue)
    /\ UNCHANGED <<hookInputs, req, res, parsedBodies, received, pc>>

HookNext == HookReceive \/ HookVerify \/ HookParse \/ HookHandle \/ HookWorker

SpecWebhook == HookInit /\ [][HookNext]_vars

\* ----------------------------------------- the server under several requests
\* Requests that reach processing: product-creation webhooks and
\* GET /process-product/:productId. web/index.js pushes the id on productQueue
\* (concurrent: 1, maxRetries: 3); src/index.js and part_001 call processProduct
\* from the handler, awaited by the webhook and in the background by the route.
concurrent == 1
maxRetries == 3

ProductIds == {"1", "2"}
RequestKinds == {"webhook", "manual"}

ServerTask(kind, id) ==
    [productId |-> id,
     from |-> IF kind = "webhook"
              THEN [rawBody |-> JsonBody(id), hmac |-> Hmac(SECRET_KEY, JsonBody(id))]
              ELSE NoRequest]

Execution(task, n) == [task |-> task, attempts |-> n, storeFailed |-> FALSE]

RemoveAt(seq, k) == SubSeq(seq, 1, k - 1) \o SubSeq(seq, k + 1, Len(seq))

processProductRejects(storeFailed) == IF storeFailed THEN "rejected" ELSE "resolved"

\* processProduct: how its promise settles. The try/catch around the whole body
\* logs the error of a failed store call and the function returns.
processProductSettles(storeFailed) == "resolved"

serverInputs == <<storeInputs, store, pc, product, metafieldDefinitions,
                  existingCollections, combinations, idx, requests, unitVars, detVars,
                  relVars, cleanVars, allCollections, thrown, entry, req, res,
                  parsedBodies, limiterVars, sweepVars>>

ServerRequest ==
    /\ received < MaxRequests
    /\ \E kind \in RequestKinds, id \in ProductIds :
          IF entry = "web"
          THEN /\ productQueue' = Append(productQueue, ServerTask(kind, id))
               /\ UNCHANGED <<running, processCalls>>
          ELSE /\ running' = Append(running, Execution(ServerTask(kind, id), 1))
               /\ processCalls' = Append(processCalls, ServerTask(kind, id))
               /\ UNCHANGED productQueue
    /\ received' = received + 1
    /\ UNCHANGED <<serverInputs, failed, jobReports>>

\* productQueue starts its next task when fewer than `concurrent` are running.
QueueStart ==
    /\ entry = "web"
    /\ productQueue # <<>>
    /\ Len(running) < concurrent
    /\ running' = Append(running, Execution(Head(productQueue), 1))
    /\ processCalls' = Append(processCalls, Head(productQueue))
    /\ productQueue' = Tail(productQueue)
    /\ UNCHANGED <<serverInputs, failed, jobReports, received>>

\* A store call made by an execution in progress fails.
ExecStoreFails ==
    /\ failed < MaxFailures
    /\ \E k \in 1..Len(running) :
          /\ ~running[k].storeFailed
          /\ running' = [running EXCEPT ![k].storeFailed = TRUE]
    /\ failed' = failed + 1
    /\ UNCHANGED <<serverInputs, productQueue, processCalls, jobReports, received>>

\* processProduct settles. The worker of productQueue calls cb(error) when it
\* rejected, and the queue runs the task again while retries are left;
\* otherwise cb(null, ...) and the task is reported.
ExecFinish ==
    /\ \E k \in 1..Len(running) :
          LET exec == running[k]
              outcome == processProductSettles(exec.storeFailed)
          IN IF entry # "web"
             THEN running' = RemoveAt(running, k) /\ UNCHANGED jobReports
             ELSE IF outcome = "rejected" /\ exec.attempts <= maxRetries
             THEN /\ running' = [running EXCEPT ![k] = Execution(exec.task, exec.attempts + 1)]
                  /\ UNCHANGED jobReports
             ELSE /\ running' = RemoveAt(running, k)
                  /\ jobReports' =
                        Append(jobReports,
                               [task |-> exec.task, attempts |-> exec.attempts,
                                storeFailed |-> exec.storeFailed,
                                event |-> IF outcome = "rejected"
                                          THEN "task_failed" ELSE "task_finish"])
    /\ UNCHANGED <<serverInputs, failed, productQueue, processCalls, received>>

ServerNext == ServerRequest \/ QueueStart \/ ExecStoreFails \/ ExecFinish

SpecServer == HookInit /\ [][ServerNext]_vars


\* ------------------------------------------------- web/shopify-api.js limiter
minRequestInterval == 500
maxAttempts == 5

Callers == {1, 2}
Responses == {"ok", "status429", "throttled", "fetchFailed", "graphqlError"}
RetryableResponses == {"status429", "throttled", "fetchFailed"}

\* A handler that calls runGraphQLQuery: callsLeft calls still to make, of
\* which the store answers at most faults requests with a failure.
Caller(n, f) ==
    [pc |-> "idle", attempt |-> 0, wakeAt |-> 0, sent |-> 0, failures |-> 0,
     result |-> "none", callsLeft |-> n, faults |-> f]

\* Math.min(1000 * Math.pow(2, attempt - 1), 30000)
retryDelay(attempt) ==
    IF 1000 * Pow2(attempt - 1) < 30000 THEN 1000 * Pow2(attempt - 1) ELSE 30000

MayRetryAlways(attempt) == TRUE

\* The test "attempt < 5" of the three retry branches.
MayRetry(attempt) == attempt < maxAttempts

Sent(c, via) == [time |-> clock, caller |-> c, via |-> via]

LimiterStart ==
    /\ variant = "web"
    /\ api = "graphql"
    /\ storeProduct = StoreProduct(Empty, Empty, <<>>)
    /\ storeDefs = <<>>
    /\ store = <<>>
    /\ ProcStart
    /\ storeOthers = 0
    /\ run = 1
    /\ firstRun = <<>>
    /\ QueueIdle
    /\ UnitIdle
    /\ DetIdle
    /\ targetHandle = <<>>
    /\ collection = NullCollection
    /\ collectionAttributes = <<>>
    /\ related = EmptyRelated
    /\ allCollections = <<>>
    /\ collectionsByRules = <<>>
    /\ collectionsToDelete = <<>>
    /\ thrown = ""
    /\ entry = "web"
    /\ req = NoRequest
    /\ res = 0
    /\ parsedBodies = <<>>
    /\ productQueue = <<>>
    /\ processCalls = <<>>
    /\ received = 0

\* No request sent yet; the process has been up for longer than the interval.
LimiterReset ==
    /\ clock = minRequestInterval
    /\ lastRequestTime = 0
    /\ sendLog = <<>>

\* One handler, whose requests the store may fail maxAttempts times.
RetryInit ==
    /\ LimiterStart
    /\ LimiterReset
    /\ SweepIdle
    /\ calls = <<Caller(MaxCalls, maxAttempts)>>

\* Two concurrent handlers.
LimiterInit ==
    /\ LimiterStart
    /\ LimiterReset
    /\ SweepIdle
    /\ \E f \in 0..MaxFailures : calls = <<Caller(MaxCalls, f), Caller(MaxCalls, 0)>>

limiterInputs == <<storeInputs, serverVars, sweepVars, store, pc, product, metafieldDefinitions,
                   existingCollections, combinations, idx, requests, failed, unitVars,
                   detVars, relVars, cleanVars, allCollections, thrown, entry, req, res,
                   parsedBodies, productQueue, processCalls, received>>

\* A handler calls runGraphQLQuery(query, variables): attempt defaults to 1.
CallStart(c) ==
    /\ c \in DOMAIN calls
    /\ calls[c].pc = "idle"
    /\ calls[c].callsLeft > 0
    /\ calls' = [calls EXCEPT ![c] =
                    [@ EXCEPT !.pc = "enter", !.attempt = 1, !.sent = 0, !.failures = 0,
                              !.result = "none", !.callsLeft = @ - 1]]
    /\ UNCHANGED <<clock, lastRequestTime, sendLog, limiterInputs>>

\* runGraphQLQuery up to its first await: the time test and, when the interval
\* has passed, lastRequestTime = Date.now() and the fetch.
LimiterCheck(c) ==
    /\ c \in DOMAIN calls
    /\ calls[c].pc = "enter"
    /\ LET timeSinceLastRequest == clock - lastRequestTime IN
          IF timeSinceLastRequest < minRequestInterval
            THEN /\ calls' = [calls EXCEPT ![c] =
                      [@ EXCEPT !.pc = "sleeping",
                                !.wakeAt = clock + (minRequestInterval - timeSinceLastRequest)]]
                 /\ UNCHANGED <<lastRequestTime, sendLog>>
            ELSE /\ lastRequestTime' = clock
                 /\ sendLog' = Append(sendLog, Sent(c, "graphql"))
                 /\ calls' = [calls EXCEPT ![c] =
                      [@ EXCEPT !.pc = "fetching", !.sent = @ + 1]]
    /\ UNCHANGED <<clock, limiterInputs>>

\* The setTimeout of the limiter has run out: lastRequestTime = Date.now() and
\* the fetch, without a second look at lastRequestTime.
LimiterWake(c) ==
    /\ c \in DOMAIN calls
    /\ calls[c].pc = "sleeping"
    /\ clock >= calls[c].wakeAt
    /\ lastRequestTime' = clock
    /\ sendLog' = Append(sendLog, Sent(c, "graphql"))
    /\ calls' = [calls EXCEPT ![c] = [@ EXCEPT !.pc = "fetching", !.sent = @ + 1]]
    /\ UNCHANGED <<clock, limiterInputs>>

Raised(call) == [call EXCEPT !.pc = "idle", !.result = "raised"]

Backoff(call, state) ==
    [call EXCEPT !.pc = state, !.wakeAt = clock + retryDelay(call.attempt)]

\* The answer to the fetch, up to the next await or the end of the call.
Respond(c) ==
    /\ c \in DOMAIN calls
    /\ calls[c].pc = "fetching"
    /\ \E response \in Responses :
          /\ response \in RetryableResponses => calls[c].faults > 0
          /\ calls' = [calls EXCEPT ![c] =
                CASE response = "ok" ->
                        [@ EXCEPT !.pc = "idle", !.result = "returned"]
                  [] response = "graphqlError" -> Raised(@)
                  [] response = "status429" ->
                        Backoff([@ EXCEPT !.failures = @ + 1, !.faults = @ - 1],
                                "backoff429")
                  [] OTHER ->
                        IF MayRetry(calls[c].attempt)
                          THEN Backoff([@ EXCEPT !.failures = @ + 1, !.faults = @ - 1],
                                       "backoff")
                          ELSE Raised([@ EXCEPT !.failures = @ + 1, !.faults = @ - 1])]
    /\ UNCHANGED <<clock, lastRequestTime, sendLog, limiterInputs>>

\* The retry delay has run out: the recursive call with attempt + 1; the 429
\* branch tests the attempt only now.
BackoffWake(c) ==
    /\ c \in DOMAIN calls
    /\ calls[c].pc \in {"backoff", "backoff429"}
    /\ clock >= calls[c].wakeAt
    /\ calls' = [calls EXCEPT ![c] =
                    IF calls[c].pc = "backoff" \/ MayRetry(calls[c].attempt)
                      THEN [@ EXCEPT !.pc = "enter", !.attempt = @ + 1]
                      ELSE Raised(@)]
    /\ UNCHANGED <<clock, lastRequestTime, sendLog, limiterInputs>>

Timers == {calls[c].wakeAt : c \in {d \in DOMAIN calls :
                calls[d].pc \in {"sleeping", "backoff", "backoff429"}
                /\ calls[d].wakeAt > clock}}

\* Time passes while every caller awaits something or is between two calls:
\* up to the next timer, or for half the interval when no timer runs out before.
\* The code between two awaits takes no time.
Advance ==
    /\ \A c \in DOMAIN calls : calls[c].pc # "enter"
    /\ \/ /\ Timers # {}
          /\ clock' = CHOOSE t \in Timers : \A u \in Timers : t <= u
       \/ /\ \A t \in Timers : clock + (minRequestInterval \div 2) <= t
          /\ \E c \in DOMAIN calls :
                \/ calls[c].pc = "fetching"
                \/ calls[c].pc = "idle" /\ calls[c].callsLeft > 0
          /\ clock < MaxClock * minRequestInterval
          /\ clock' = clock + (minRequestInterval \div 2)
    /\ UNCHANGED <<lastRequestTime, calls, sendLog, limiterInputs>>

LimiterNext ==
    \/ \E c \in Callers : CallStart(c)
    \/ \E c \in Callers : LimiterCheck(c)
    \/ \E c \in Callers : LimiterWake(c)
    \/ \E c \in Callers : Respond(c)
    \/ \E c \in Callers : BackoffWake(c)
    \/ Advance

SpecLimiter == LimiterInit /\ [][LimiterNext]_vars

SpecRetry == RetryInit /\ [][LimiterNext]_vars


\* ------------------------------------------------ processAllExistingProducts
SweepIds == {"1", "2", "3"}

RECURSIVE Flatten(_)
Flatten(pages) ==
    IF pages = <<>> THEN <<>> ELSE Head(pages) \o Flatten(Tail(pages))

Distinct(seq) == \A i \in 1..Len(seq) : \A j \in 1..Len(seq) : seq[i] = seq[j] => i = j

\* What products(first: 50, after: cursor) lists: every product once, in pages.
ProductPages ==
    {ps \in UNION {[1..n -> UNION {[1..m -> SweepIds] : m \in 0..MaxPageLen}] :
                      n \in 1..MaxPages} : Distinct(Flatten(ps))}

\* getProductsGraphQL(cursor): the page after the cursor; a cursor is the number
\* of the page it ends, null is 0.
getProductsGraphQL(cursor) ==
    [products |->
        [edges |-> productPages[cursor + 1],
         pageInfo |-> [hasNextPage |-> cursor + 1 < Len(productPages),
                       endCursor |-> cursor + 1]]]

SweepInit ==
    /\ LimiterStart
    /\ clock = 0
    /\ lastRequestTime = 0
    /\ calls = <<>>
    /\ sendLog = <<>>
    /\ productPages \in ProductPages
    /\ sweep = [pc |-> "fetch", hasNextPage |-> TRUE, cursor |-> 0, productsProcessed |-> 0,
                products |-> <<>>, pageInfo |-> [hasNextPage |-> TRUE, endCursor |-> 0],
                k |-> 1, fetches |-> 0, broke |-> FALSE, log |-> <<>>]

sweepInputs == <<storeInputs, serverVars, limiterVars, productPages, store, pc, product,
                 metafieldDefinitions, existingCollections, combinations, idx, requests,
                 unitVars, detVars, toolVars>>

\* "while (hasNextPage)" and the fetch of the next page. A failed request gives
\* null (REST module) or an exception for the catch of the function.
SweepFetch ==
    /\ sweep.pc = "fetch"
    /\ IF ~sweep.hasNextPage
       THEN /\ sweep' = [sweep EXCEPT !.pc = "ended"]
            /\ UNCHANGED failed
       ELSE \E ok \in BOOLEAN :
               /\ CallOk(ok)
               /\ failed' = IF ok THEN failed ELSE failed + 1
               /\ sweep' =
                    IF ok
                    THEN LET result == getProductsGraphQL(sweep.cursor) IN
                         [sweep EXCEPT !.pc = "page",
                                       !.products = result.products.edges,
                                       !.pageInfo = result.products.pageInfo,
                                       !.k = 1,
                                       !.fetches = @ + 1]
                    ELSE [sweep EXCEPT !.pc = "ended", !.broke = TRUE, !.fetches = @ + 1]
    /\ UNCHANGED <<sweepInputs>>

\* "for (const product of products)": the call of processProduct.
SweepProcessStart ==
    /\ sweep.pc = "page"
    /\ sweep.k <= Len(sweep.products)
    /\ sweep' = [sweep EXCEPT !.pc = "processing",
                    !.log = Append(@, [id |-> sweep.products[sweep.k], event |-> "start"])]
    /\ UNCHANGED <<failed, sweepInputs>>

\* processProduct settles; a rejection would end the function in its catch.
SweepProcessEnd ==
    /\ sweep.pc = "processing"
    /\ \E ok \in BOOLEAN :
          /\ CallOk(ok)
          /\ failed' = IF ok THEN failed ELSE failed + 1
          /\ LET event == processProductSettles(~ok) IN
             sweep' = IF event = "resolved"
                      THEN [sweep EXCEPT !.pc = "page", !.k = @ + 1,
                               !.productsProcessed = @ + 1,
                               !.log = Append(@, [id |-> sweep.products[sweep.k],
                                                 event |-> event])]
                      ELSE [sweep EXCEPT !.pc = "ended",
                               !.log = Append(@, [id |-> sweep.products[sweep.k],
                                                 event |-> event])]
    /\ UNCHANGED <<sweepInputs>>

\* "hasNextPage = result.products.pageInfo.hasNextPage; cursor = ...endCursor".
SweepPageDone ==
    /\ sweep.pc = "page"
    /\ sweep.k > Len(sweep.products)
    /\ sweep' = [sweep EXCEPT !.pc = "fetch",
                    !.hasNextPage = sweep.pageInfo.hasNextPage,
                    !.cursor = sweep.pageInfo.endCursor]
    /\ UNCHANGED <<failed, sweepInputs>>

SweepNext == SweepFetch \/ SweepProcessStart \/ SweepProcessEnd \/ SweepPageDone

SpecSweep == SweepInit /\ [][SweepNext]_vars


\* ------------------------------------------------------------------ claims
EntrySet(obj) == {obj[i] : i \in 1..Len(obj)}

NonEmptyOptionals(v, p) ==
    {a \in {OPTIONAL_ATTRIBUTES(v)[j] : j \in 1..Len(OPTIONAL_ATTRIBUTES(v))} :
        Truthy(ObjGet(extractProductAttributes(v, p), a))}

\* C1: for a product with a non-empty product type the combinations returned
\* by generateAttributeCombinations number exactly 2^k, k the number of
\* non-empty optional attributes, and are pairwise distinct mappings.
C1_ExactlyTwoToTheK ==
    (pc = "loop" /\ Truthy(product.productType)) =>
        /\ Len(combinations) = Pow2(Cardinality(NonEmptyOptionals(variant, product)))
        /\ \A i, j \in 1..Len(combinations) :
              i # j => EntrySet(combinations[i]) # EntrySet(combinations[j])

\* C2: a store without two collections of the same rule set has none after
\* processProduct completed with every store call succeeding.
C2_NoDuplicateAfterRun ==
    (pc = "done" /\ failed = 0) => NoDuplicateRuleSets(store)

\* C3: after processProduct completed with every store call succeeding, the
\* store holds a collection with the rules built for each combination of a
\* product with a non-empty product type.
C3_EveryCombinationHasCollection ==
    (pc = "done" /\ failed = 0 /\ ~product.isNull /\ Truthy(product.productType)) =>
        LET combos == generateAttributeCombinations(variant, product)
        IN \A i \in 1..Len(combos) :
              \E c \in 1..Len(store) :
                 SameRuleSet(store[c].rules,
                             createCollectionDetails(variant, combos[i],
                                                     metafieldDefinitions).rules)

\* C6: for a product with an empty product type generateAttributeCombinations
\* returns the empty sequence, whatever the other attributes, and processing
\* the product sends no create request.
C6_EmptyTypeYieldsNothing ==
    (~product.isNull /\ ~Truthy(product.productType)) =>
        /\ generateAttributeCombinations(variant, product) = <<>>
        /\ (pc \in {"loop", "done"} => combinations = <<>>)
        /\ requests = <<>>

C6_Witness ==
    /\ pc = "done" /\ idx = 1 /\ failed = 0
    /\ "getExistingSmartCollections" \in Exports(api)
    /\ ~product.isNull /\ ~Truthy(product.productType)
    /\ Truthy(product.vendor) /\ Len(product.metafields) > 0

RuleKeyOf(r) ==
    <<r.column, r.relation, r.condition,
      IF r.column = "product_metafield_definition" THEN r.condition_object_id ELSE NoId>>

RuleKeys(rules) == {RuleKeyOf(rules[i]) : i \in 1..Len(rules)}

Reverse(seq) == [i \in 1..Len(seq) |-> seq[Len(seq) + 1 - i]]

ReverseRulesOf(c) == [c EXCEPT !.rules = Reverse(c.rules)]

\* C4: doesSimilarCollectionExist answers true exactly when some existing
\* collection has as many rules as the candidate and holds, for every candidate
\* rule, a rule of equal column, relation, condition and (metafield column)
\* definition reference; reordering either rule list leaves the answer alone,
\* and the answer is false when no existing collection has the candidate's
\* rule count.
C4_DetectorCharacterisation ==
    pc = "d_done" =>
        /\ detResult =
              (\E c \in 1..Len(existingCollections) :
                  /\ existingCollections[c].hasRules
                  /\ Len(existingCollections[c].rules) = Len(candRules)
                  /\ \A r \in RuleKeys(candRules) :
                        \E e \in 1..Len(existingCollections[c].rules) :
                           LET x == existingCollections[c].rules[e]
                           IN /\ x.column = r[1] /\ x.relation = r[2]
                              /\ x.condition = r[3]
                              /\ (r[1] = "product_metafield_definition"
                                     => x.condition_object_id = r[4]))
        /\ \A q \in Perms(candRules) :
              doesSimilarCollectionExist(q, existingCollections) = detResult
        /\ doesSimilarCollectionExist(
              candRules,
              [c \in 1..Len(existingCollections) |->
                  ReverseRulesOf(existingCollections[c])]) = detResult
        /\ ((\A c \in 1..Len(existingCollections) :
                Len(existingCollections[c].rules) # Len(candRules))
               => detResult = FALSE)

\* One rule list is a strict subset of the other and the answer is false; a
\* reordered list is recognised.
C4_Witness ==
    /\ pc = "d_done"
    /\ Len(candRules) = 1
    /\ Len(existingCollections) = 2
    /\ Len(existingCollections[1].rules) = 2
    /\ RuleKeys(candRules) \subseteq RuleKeys(existingCollections[1].rules)
    /\ ~existingCollections[2].hasRules
    /\ detResult = FALSE

\* C5: createCollectionDetails returns the same title and the same handle for
\* a combination whatever the order its attributes were inserted in.
C5_OrderInvariant ==
    pc \in {"u_built", "u_parsed"} =>
        LET reference ==
               createCollectionDetails(variant, combinations[idx], metafieldDefinitions)
        IN /\ collectionDetails.isNull = reference.isNull
           /\ collectionDetails.title = reference.title
           /\ collectionDetails.handle = reference.handle

C5_Witness ==
    /\ pc = "u_built"
    /\ Len(inputCombination) = 5
    /\ inputCombination = Reverse(combinations[idx])
    /\ ~collectionDetails.isNull

MetafieldBacked(v) == {"condition", "fuel_type", SizeAttr(v)}

MapsEveryUsedDefinition(v, combination, defs) ==
    \A a \in MetafieldBacked(v) :
       (ObjHas(combination, a) /\ Truthy(ObjGet(combination, a)))
          => (ObjHas(defs, a) /\ Truthy(ObjGet(defs, a)))

\* C9: with a definition map that has an entry for each metafield-backed
\* attribute the combination uses, parseCollectionAttributes applied to the
\* rules createCollectionDetails returned gives back the combination's value
\* for condition, size, fuel type, vendor and product type, and the empty
\* value for each attribute the combination lacks.
C9_RoundTrip ==
    (pc = "u_parsed"
       /\ MapsEveryUsedDefinition(variant, inputCombination, metafieldDefinitions)) =>
        \A a \in {"product_type", "vendor", "condition", "fuel_type", SizeAttr(variant)} :
           /\ ObjHas(parsed, a)
           /\ ObjGet(parsed, a) =
                 (IF ObjHas(inputCombination, a) THEN ObjGet(inputCombination, a)
                  ELSE Empty)

C9_Witness ==
    /\ pc = "u_parsed"
    /\ Len(inputCombination) = 5
    /\ MapsEveryUsedDefinition(variant, inputCombination, metafieldDefinitions)
    /\ \A a \in {"product_type", "vendor", "condition", "fuel_type", SizeAttr(variant)} :
          Truthy(ObjGet(parsed, a))

Handles(list) == {list[i].handle : i \in 1..Len(list)}

OtherCollections == SelectSeq(allCollections, LAMBDA c : c.handle # targetHandle)

ParsedOf(c) == parseCollectionAttributes(c, metafieldDefinitions)

DrillDownHolds(bucket, attr) ==
    /\ \A i \in 1..Len(OtherCollections) :
          LET other == OtherCollections[i]
          IN other.handle \in Handles(bucket) <=>
                /\ ~Truthy(ObjGet(collectionAttributes, attr))
                /\ Truthy(ObjGet(collectionAttributes, "product_type"))
                /\ ObjGet(ParsedOf(other), "product_type") =
                      ObjGet(collectionAttributes, "product_type")
                /\ Truthy(ObjGet(ParsedOf(other), attr))
    /\ (Truthy(ObjGet(collectionAttributes, attr)) => bucket = <<>>)

\* C7: in the result of getRelatedCollections a collection other than the
\* target is in byManufacturer exactly when the target has no vendor, the
\* target has a product type, the other collection has that product type and
\* the other collection has a vendor; the bucket is empty when the target has
\* a vendor. Likewise bySizeItem (size), bySpecs.condition and bySpecs.fuelType.
C7_DrillDownGating ==
    pc = "returned" =>
        /\ DrillDownHolds(related.byManufacturer, "vendor")
        /\ DrillDownHolds(related.bySizeItem, "size_item")
        /\ DrillDownHolds(related.bySpecs.condition, "condition")
        /\ DrillDownHolds(related.bySpecs.fuelType, "fuel_type")

C7_Witness ==
    /\ pc = "returned"
    /\ Truthy(ObjGet(collectionAttributes, "vendor"))
    /\ ~Truthy(ObjGet(collectionAttributes, "fuel_type"))
    /\ \E i \in 1..Len(OtherCollections) :
          /\ Truthy(ObjGet(ParsedOf(OtherCollections[i]), "vendor"))
          /\ ObjGet(ParsedOf(OtherCollections[i]), "product_type") =
                ObjGet(collectionAttributes, "product_type")
    /\ related.byManufacturer = <<>>
    /\ Len(related.bySpecs.fuelType) = 1
    /\ Len(related.byCategory) = 2

CategoryExact ==
    /\ Len(related.byCategory) = Cardinality(Handles(related.byCategory))
    /\ Handles(related.byCategory) =
          {c.handle : c \in
              {OtherCollections[i] : i \in
                  {j \in 1..Len(OtherCollections) :
                      ObjGet(ParsedOf(OtherCollections[j]), "product_type") =
                         ObjGet(collectionAttributes, "product_type")}}}

ComputedBuckets ==
    {related.byCategory, related.byManufacturer, related.bySizeItem,
     related.bySpecs.condition, related.bySpecs.fuelType}

\* C8 as stated: byCategory holds exactly the fetched collections other than
\* the target whose product type is the target's, and no bucket of the result,
\* parts included, has an entry with the target's handle.
C8_NoBucketHoldsTarget ==
    pc = "returned" =>
        /\ CategoryExact
        /\ \A b \in ComputedBuckets \cup {related.parts} :
              targetHandle \notin Handles(b)

\* C8: byCategory holds exactly the fetched collections other than the target
\* whose product type is the target's, and none of the buckets computed from
\* the catalog (byCategory, byManufacturer, bySizeItem, bySpecs) has an entry
\* with the target's handle; parts is the fixed list whatever the target.
C8_NoComputedBucketHoldsTarget ==
    pc = "returned" =>
        /\ CategoryExact
        /\ \A b \in ComputedBuckets : targetHandle \notin Handles(b)
        /\ related.parts = PartsCollections

C8_Witness ==
    /\ pc = "returned"
    /\ targetHandle = PartsCollections[1].handle
    /\ targetHandle \in Handles(allCollections)
    /\ Len(related.byCategory) = 1
    /\ Len(allCollections) = 3

IsPermutation(a, b) == Len(a) = Len(b) /\ b \in Perms(a)

GroupOf(c) ==
    {k \in 1..Len(collectionsByRules) :
        \E m \in 1..Len(collectionsByRules[k][2]) : collectionsByRules[k][2][m].id = c.id}

\* Two collections with the rules vendor = Genie and type = Boom Lift in
\* different orders.
VendorTypeScenario(list) ==
    /\ Len(list) = 2
    /\ list[1].rules # list[2].rules
    /\ \A i \in 1..2 :
          /\ Len(list[i].rules) = 2
          /\ RuleKeys(list[i].rules) = RuleKeys(<<VendorRule(Genie), TypeRule(BoomLift)>>)

\* C10: in cleanupDuplicateCollections two collections whose rule lists are
\* permutations of one another get the same signature and the same group,
\* and a store of two collections with the rules vendor = Genie and
\* type = Boom Lift in different orders has exactly one deletion planned.
C10_GroupingIgnoresRuleOrder ==
    /\ pc = "delete" =>
          \A i, j \in 1..Len(allCollections) :
             (Len(allCollections[i].rules) > 0
                /\ IsPermutation(allCollections[i].rules, allCollections[j].rules))
                => /\ ruleKeyOf(allCollections[i].rules) = ruleKeyOf(allCollections[j].rules)
                   /\ GroupOf(allCollections[i]) = GroupOf(allCollections[j])
    /\ (pc = "ended" /\ failed = 0
          /\ (VendorTypeScenario(allCollections) \/ VendorTypeScenario(store)))
          => Len(collectionsToDelete) = 1

PlannedIds == {collectionsToDelete[i] : i \in 1..Len(collectionsToDelete)}

MemberIds(group) == {group[m].id : m \in 1..Len(group)}

\* The member the claim names: the earliest created_at when every member has
\* one, the smallest id when no member has one.
NamedSurvivors(group) ==
    IF \A m \in 1..Len(group) : group[m].created_at # 0
    THEN {group[m].id : m \in {x \in 1..Len(group) :
             \A y \in 1..Len(group) : group[x].created_at <= group[y].created_at}}
    ELSE IF \A m \in 1..Len(group) : group[m].created_at = 0
    THEN {group[m].id : m \in {x \in 1..Len(group) :
             \A y \in 1..Len(group) : group[x].id <= group[y].id}}
    ELSE MemberIds(group)

SignatureMatches(request) ==
    request.hmac.present /\ request.hmac = Hmac(SECRET_KEY, request.rawBody)

\* C12: a product-creation request whose signature header is missing or is
\* not the HMAC of its raw body under the secret is answered with a rejection,
\* its body is never parsed, and no task or processProduct call comes from it.
C12_WebhookFailClosed ==
    /\ \A i \in 1..Len(parsedBodies) : SignatureMatches(parsedBodies[i])
    /\ \A i \in 1..Len(productQueue) : SignatureMatches(productQueue[i].from)
    /\ \A i \in 1..Len(processCalls) : SignatureMatches(processCalls[i].from)
    /\ (res # 0 /\ ~SignatureMatches(req)) => res = 403


\* C13: the second of two invocations of processProduct for the same product,
\* on the store the first one left and with no store call failing, sends no
\* create request.
C13_SecondRunCreatesNothing ==
    (run = 2 /\ failed = 0) => requests = <<>>

\* The same, for a store whose listing fits the page of the REST request.
C13_SecondRunOnSmallStore ==
    (run = 2 /\ failed = 0 /\ storeOthers + Len(store) <= PageLimit) => requests = <<>>
C13_SmallStoreWitness ==
    run = 2 /\ failed = 0 /\ pc = "done" /\ storeOthers = 0 /\ Len(firstRun) = 16
\* C14: doesSimilarCollectionExist gives, for existing collections that hold
\* their rules in the nested rule-set shape (ruleSet.rules, uppercase column and
\* relation, conditionObject), the answer it gives for the same collections
\* with flat rules.
FlatShape(collections) ==
    [k \in 1..Len(collections) |-> RestShape(collections[k], FALSE)]

C14_DuplicateCheckIgnoresShape ==
    (pc = "d_done" /\ candRules # <<>>) =>
        detResult = doesSimilarCollectionExist(candRules, FlatShape(existingCollections))
\* C15: parseCollectionAttributes returns, for a collection in the nested
\* rule-set shape, the attribute values it returns for the same collection with
\* flat rules (definition reference as bare number or as gid) and the same
\* definition map, a metafield rule whose definition the map lacks included.
C15_ParseIgnoresShape ==
    (pc = "catalog" /\ collection.hasRuleSet) =>
        \A gid \in BOOLEAN :
           collectionAttributes =
              parseCollectionAttributes(RestShape(collection, gid), metafieldDefinitions)

\* The same, for a collection whose metafield rules all refer to definitions
\* of the map.
RuleDefinitionsMapped(aCollection, defs) ==
    \A k \in 1..Len(aCollection.ruleSet.rules) :
       LET rule == aCollection.ruleSet.rules[k]
       IN rule.conditionObject.hasDefinition =>
             \E d \in 1..Len(defs) :
                defs[d][2] = SplitPop(rule.conditionObject.metafieldDefinition.id)

C15_ParseIgnoresShapeWhenMapped ==
    (pc = "catalog" /\ collection.hasRuleSet
       /\ RuleDefinitionsMapped(collection, metafieldDefinitions)) =>
        \A gid \in BOOLEAN :
           collectionAttributes =
              parseCollectionAttributes(RestShape(collection, gid), metafieldDefinitions)
C15_MappedWitness ==
    /\ pc = "catalog" /\ collection.hasRuleSet
    /\ RuleDefinitionsMapped(collection, metafieldDefinitions)
    /\ Truthy(ObjGet(collectionAttributes, "condition"))
\* C16: every metafield rule createCollectionDetails returns carries the
\* definition reference the map holds for its attribute, an attribute without
\* map entry gets no rule, and every metafield rule of a create request sent
\* for these details carries that reference too.
MetafieldRules(rules) ==
    SelectSeq(rules, LAMBDA rule : ColumnLower(rule.column) = "product_metafield_definition")

SubmittedReference(rule) ==
    IF "conditionObjectId" \in DOMAIN rule
    THEN rule.conditionObjectId ELSE rule.condition_object_id

MappedAttributes(v, combination, defs) ==
    {a \in MetafieldBacked(v) :
        /\ ObjHas(combination, a) /\ Truthy(ObjGet(combination, a))
        /\ ObjHas(defs, a) /\ Truthy(ObjGet(defs, a))}

BuiltRulesCarryDefinition ==
    LET built == MetafieldRules(collectionDetails.rules)
    IN /\ Len(built) =
             Cardinality(MappedAttributes(variant, inputCombination, metafieldDefinitions))
       /\ \A k \in 1..Len(built) :
             \E a \in MappedAttributes(variant, inputCombination, metafieldDefinitions) :
                /\ built[k].condition = ObjGet(inputCombination, a)
                /\ built[k].condition_object_id = ObjGet(metafieldDefinitions, a)

C16_BuiltRulesCarryDefinition ==
    (pc \in {"u_built", "u_sent"} /\ ~collectionDetails.isNull) => BuiltRulesCarryDefinition
C16_BuiltWitness ==
    /\ pc = "u_built" /\ ~collectionDetails.isNull
    /\ Len(MetafieldRules(collectionDetails.rules)) = 1
    /\ Cardinality({a \in MetafieldBacked(variant) : Truthy(ObjGet(inputCombination, a))}) = 3

C16_MetafieldRulesCarryDefinition ==
    /\ C16_BuiltRulesCarryDefinition
    /\ (pc = "u_sent" /\ requests # <<>>) =>
          LET built == MetafieldRules(collectionDetails.rules)
              submitted == MetafieldRules(requests[1].rules)
          IN /\ Len(submitted) = Len(built)
             /\ \A k \in 1..Len(submitted) :
                   /\ Truthy(SubmittedReference(submitted[k]))
                   /\ SplitPop(SubmittedReference(submitted[k])) =
                         SplitPop(built[k].condition_object_id)

\* C17: every create request asks for conjunctive matching.
C17_EveryCreateIsConjunctive ==
    \A i \in 1..Len(requests) : ~requests[i].disjunctive
\* C18: createCollectionDetails gives a combination the title made of its
\* non-empty values in the order condition, size, vendor, fuel type, product
\* type joined by single spaces, and the handle made of the slug fragments of
\* those values in the same order joined by hyphens, empty fragments left out;
\* {Boom Lift} gets 'Boom Lift' and 'boom-lift', {Genie, Boom Lift} gets
\* 'Genie Boom Lift' and 'genie-boom-lift'.
OrderedValues(v, combination) ==
    LET present == SelectSeq(attributeOrder(v),
                             LAMBDA a : ObjHas(combination, a)
                                        /\ Truthy(ObjGet(combination, a)))
    IN [i \in 1..Len(present) |-> ObjGet(combination, present[i])]

ExpectedTitle(v, combination) == Join(OrderedValues(v, combination), <<" ">>)

ExpectedHandle(v, combination) ==
    LET values == OrderedValues(v, combination)
    IN Join(SelectSeq([i \in 1..Len(values) |-> handleValue(values[i])],
                      LAMBDA fragment : fragment # <<>>),
            <<"-">>)

BoomLiftSlug == <<"b", "o", "o", "m", "-", "l", "i", "f", "t">>
GenieBoomLiftSlug == <<"g", "e", "n", "i", "e", "-">> \o BoomLiftSlug

ExampleTitles ==
    /\ EntrySet(inputCombination) = {<<"product_type", BoomLift>>}
          => collectionDetails.title = BoomLift
    /\ EntrySet(inputCombination) = {<<"vendor", Genie>>, <<"product_type", BoomLift>>}
          => collectionDetails.title = Genie \o <<" ">> \o BoomLift

ExampleHandles ==
    /\ EntrySet(inputCombination) = {<<"product_type", BoomLift>>}
          => collectionDetails.handle = BoomLiftSlug
    /\ EntrySet(inputCombination) = {<<"vendor", Genie>>, <<"product_type", BoomLift>>}
          => collectionDetails.handle = GenieBoomLiftSlug

C18_TitleAndHandle ==
    (pc = "u_built" /\ ~collectionDetails.isNull) =>
        /\ collectionDetails.title = ExpectedTitle(variant, inputCombination)
        /\ collectionDetails.handle = ExpectedHandle(variant, inputCombination)
        /\ ExampleTitles
        /\ ExampleHandles

\* The title for both generators, the handle for the one that builds it.
C18_TitleAndWebHandle ==
    (pc = "u_built" /\ ~collectionDetails.isNull) =>
        /\ collectionDetails.title = ExpectedTitle(variant, inputCombination)
        /\ ExampleTitles
        /\ variant = "web" =>
              /\ collectionDetails.handle = ExpectedHandle(variant, inputCombination)
              /\ ExampleHandles
C18_WebWitness ==
    /\ pc = "u_built" /\ variant = "web"
    /\ inputCombination = <<<<"product_type", BoomLift>>, <<"vendor", Genie>>>>
    /\ collectionDetails.handle = GenieBoomLiftSlug
\* C19: when getCollectionByHandle resolves the target handle to no collection,
\* getRelatedCollections throws "Collection not found" and returns no result,
\* and the route answers 500 with that reason, never 200.
C19_UnresolvedHandleFails ==
    (pc # "start" /\ "getCollectionByHandle" \in Exports(api)
       /\ collection = NullCollection) =>
        /\ pc \in {"thrown", "answered"}
        /\ thrown = "Collection not found"
        /\ related = EmptyRelated
        /\ pc = "answered" => res = 500
C19_Witness ==
    /\ pc = "answered" /\ res = 500 /\ failed = 0
    /\ targetHandle = <<"x">>
    /\ thrown = "Collection not found"
C20_WitnessOne ==
    /\ pc = "u_generated" /\ Truthy(product.productType)
    /\ NonEmptyOptionals(variant, product) = {}
    /\ Len(combinations) = 1
\* C21: at no time are two executions of processProduct in progress, whatever
\* the webhooks and process-product requests that arrive.
C21_OneExecutionAtATime ==
    Len(running) <= 1

\* The same for the server of web/index.js, which queues every request.
C21_QueueSerializes ==
    entry = "web" => Len(running) <= 1
C21_QueueWitness ==
    entry = "web" /\ Len(running) = 1 /\ Len(productQueue) = 1 /\ received = 2

\* C24: a queued job during whose processing a store call failed is run again
\* by the queue before it is reported.
C24_FailedJobIsRetried ==
    \A i \in 1..Len(jobReports) :
       jobReports[i].storeFailed =>
          /\ jobReports[i].attempts > 1
          /\ jobReports[i].event = "task_failed"


\* C22: any two requests sent to the store are at least minRequestInterval
\* milliseconds apart, also when they come from concurrent handlers.
C22_RequestsSpacedApart ==
    \A i \in 1..Len(sendLog) : \A j \in 1..Len(sendLog) :
        i < j => sendLog[j].time - sendLog[i].time >= minRequestInterval

\* The same for the requests of one caller that is alone.
C22_SingleCallerSpacedApart ==
    Len(calls) = 1 => C22_RequestsSpacedApart

C22_SingleCallerWitness ==
    /\ Len(calls) = 1
    /\ Len(sendLog) = maxAttempts

\* C23: one call of runGraphQLQuery sends at most maxAttempts requests, and
\* when every one of them met a rate limit, a throttle or a network failure the
\* call raises a failure after the last of them.
C23_AtMostFiveAttempts ==
    \A c \in DOMAIN calls :
        /\ calls[c].sent <= maxAttempts
        /\ calls[c].attempt <= maxAttempts
        /\ calls[c].failures = maxAttempts =>
              \/ calls[c].pc = "backoff429"
              \/ calls[c].pc = "idle" /\ calls[c].result = "raised"

C23_Witness ==
    \E c \in DOMAIN calls :
        /\ calls[c].failures = maxAttempts
        /\ calls[c].sent = maxAttempts
        /\ calls[c].pc = "idle"
        /\ calls[c].result = "raised"


\* C25: when the list of the existing collections cannot be fetched during
\* processProduct, the run is aborted: processProduct ends there and goes on to
\* no create request.
C25_FailedListingAborts ==
    [][(pc = "existing" /\ failed' > failed) => (pc' = "done" /\ requests' = requests)]_vars


RulesInStore(rules) == \E k \in 1..Len(store) : store[k].rules = rules

IsStart(e) == e.event = "start"

Started == SelectSeq(sweep.log, IsStart)

StartedIds == [i \in 1..Len(Started) |-> Started[i].id]

\* C27: processAllExistingProducts calls processProduct for every product the
\* store lists, once each and in the order of the pages, one call after the
\* other; it goes on after a product whose processing failed, and it fetches
\* no page after the one without a next page.
C27_EveryProductOnceInOrder ==
    sweep.pc # "none" =>
        LET listed == Flatten(productPages) IN
        /\ Len(StartedIds) <= Len(listed)
        /\ StartedIds = SubSeq(listed, 1, Len(StartedIds))
        /\ \A i \in 1..Len(sweep.log) :
              /\ sweep.log[i].event = "start" <=> i % 2 = 1
              /\ i % 2 = 0 => sweep.log[i].id = sweep.log[i - 1].id
        /\ sweep.fetches <= Len(productPages)
        /\ (sweep.pc = "ended" /\ ~sweep.broke) =>
              /\ StartedIds = listed
              /\ Len(sweep.log) = 2 * Len(listed)
              /\ sweep.productsProcessed = Len(listed)
              /\ sweep.fetches = Len(productPages)

C27_Witness ==
    /\ sweep.pc = "ended"
    /\ ~sweep.broke
    /\ failed > 0
    /\ Len(productPages) = MaxPages
    /\ sweep.productsProcessed = 3


DeletedIds == [k \in 1..Len(requests) |-> requests[k].id]

C29_GroupingAgreesWithDetector ==
    pc = "delete" =>
        \A i, j \in 1..Len(allCollections) :
           (/\ i # j
            /\ allCollections[i].hasRules /\ Len(allCollections[i].rules) > 0
            /\ allCollections[j].hasRules /\ Len(allCollections[j].rules) > 0)
              => (GroupOf(allCollections[i]) = GroupOf(allCollections[j])
                    <=> doesSimilarCollectionExist(allCollections[i].rules,
                                                   <<allCollections[j]>>))


IsSlugChar(c) ==
    SeqContains(LowerSeq, c) \/ SeqContains(DigitSeq, c) \/ c = "_" \/ c = "-"

IsSlug(h) ==
    /\ \A i \in 1..Len(h) : IsSlugChar(h[i])
    /\ \A i \in 1..Len(h) - 1 : ~(h[i] = "-" /\ h[i + 1] = "-")
    /\ h # <<>> => (h[1] # "-" /\ h[Len(h)] # "-")

\* C30: every handle createCollectionDetails produces is a URL-safe slug: only
\* lowercase word characters and hyphens, no whitespace, no two hyphens in a
\* row, no hyphen at either end, also for values with spaces, punctuation or
\* hyphens at their ends.
C30_HandleIsSlug ==
    (pc = "u_built" /\ ~collectionDetails.isNull /\ collectionDetails.handle # Undefined)
        => IsSlug(collectionDetails.handle)

====
